---- MODULE Spec2Model ----
(***************************************************************************)
(* Prompt2Code: the streaming code-synchronisation engine.                 *)
(*                                                                         *)
(*   - appendAvoidingOverlap, looksIncomplete, cleanResponse               *)
(*         (src/src/groqClient.ts), as operators over texts;               *)
(*   - completeWithContinuation / generateCode (src/src/groqClient.ts),    *)
(*         the continuation loop, as a state machine;                      *)
(*   - makeRangeStreamUpdater / makeStreamUpdater / applyPending, the      *)
(*         agent-mode edit of handleUserMessage and the checkpointAction   *)
(*         handler (src/src/chatViewProvider.ts, src/src/extension.ts),    *)
(*         as a state machine over one live document.                      *)
(*                                                                         *)
(* A text is a sequence of one-character strings.  Offsets are 0-based as  *)
(* in the source; SubSeq is 1-based.                                       *)
(***************************************************************************)
EXTENDS Naturals, Integers, Sequences, FiniteSets, TLC

VARIABLES
    \* ---- harness of the pure text functions ----
    fnPc,          \* "args" before the call, "done" after it
    current,       \* appendAvoidingOverlap: first argument
    addition,      \* appendAvoidingOverlap: second argument
    appended,      \* appendAvoidingOverlap: returned text
    code,          \* looksIncomplete: first argument
    language,      \* looksIncomplete: second argument
    incomplete,    \* looksIncomplete: returned boolean
    \* ---- continuation loop (completeWithContinuation, generateCode) ----
    contPc,        \* "start", "awaiting" (inside requestCompletion), "done", "failed"
    contKind,      \* which of the two loops runs
    contOption,    \* options.maxContinuations: {n} when given, {} when not
    attempt,       \* the loop variable
    assembled,     \* the text assembled so far
    calls,         \* number of requestCompletion calls issued
    reasons,       \* the finish reasons reported so far, in order
    contResult,    \* the returned text
    \* ---- the live document and the checkpoint store ----
    doc,           \* editor.document.getText()
    docVersion,    \* the document version; an edit built on an older one is rejected
    inflight,      \* the editor.edit calls that have not settled, in order of issue
    checkpoints,   \* this.checkpoints: id -> snapshot content
    checkpointCounter, \* this.checkpointCounter
    cpAct,         \* the running checkpointAction 'discard' handler: <<>> or <<record>>
    \* ---- one edit operation (chat agent edit, or the generateCode command) ----
    opPc,          \* position of the operation
    mode,          \* "selection", "whole" or "command"
    cpId,          \* checkpoint id of the operation, 0 when it has none
    origDoc,       \* the document text when streaming started
    startOffset,   \* selection mode: offset of the region start
    originalLen,   \* selection mode: length of the region before the edit
    accumulated,   \* the streamed text so far
    newBlock,      \* the text returned by the generation call
    finalAttempt,  \* loop variable of the final write
    finalRange,    \* the range the caller hands to replaceRange
    finalOutcome,  \* "none", "skipped", "ok" or "failed"
    flushWaited,   \* flush() has found busy set at least once
    \* ---- the stream updater session ----
    pending,       \* <<>> for null, <<text>> otherwise
    lastLen,
    busy,
    currentEnd,    \* range updater only
    applyPc,       \* "idle", "editing" or "sleeping" (between two attempts)
    applyAttempt,  \* loop variable of replaceFullDocument inside apply
    applyText,     \* the text apply is writing
    lastWritten,   \* <<>> or <<text>>: the text of the last write that landed
    \* ---- the environment ----
    streamCap,     \* the longest text the streaming reply of this behaviour reaches
    resolved,      \* the checkpointAction messages handled to the end: [id, action]
    replays,       \* checkpointAction messages received for an id already resolved
    uiMessage,     \* what the operation has told the user: "none", "updated", "error"
    \* ---- the choice of the target region ----
    regionPc,      \* "args" before the choice, "done" after it
    lines,         \* doc.getText().split('\n')
    instruction,   \* cleanMessage
    selection,     \* editor.selection as <<start offset, end offset>>
    target,        \* <<>> or <<[mode, from, to]>>: the chosen strategy and range
    \* ---- one call of requestCompletion ----
    reqPc,         \* "start", "awaiting" (axios.post), "sleeping", "returned", "thrown"
    apiKey,        \* config.apiKey is set
    reqAttempt,    \* the loop variable
    httpCalls,     \* number of axios.post calls issued
    responses,     \* how the axios.post calls ended, in order
    backoffs,      \* the sleeps between attempts, in ms, in order
    reqError,      \* <<>> or <<what was thrown>>
    \* ---- one call of generateCodeStreaming ----
    gcsPc,         \* "start", "streaming", "loop", "contStreaming", "returned", "thrown"
    gcsKey,        \* config.apiKey is set
    gcsLanguage,   \* the language argument
    configMaxTokens, \* config.maxTokens
    modelWindow,   \* MODEL_WINDOWS[config.model] ?? 8000
    inputTokens,   \* estimateTokens of the prompts of the request being built
    maxTokensSent, \* the max_tokens of the requests sent, in order
    gcsAccumulated, \* accumulated: the deltas of the first response
    cleaned,       \* the cleaned text assembled so far
    cont,          \* the loop variable of the auto-continuation
    contAccumulated, \* the deltas of the running continuation response
    gcsEnds,       \* how the requests ended, in order: "end", "status", "error"
    emitted,       \* <<>> or <<the last text handed to onChunk>>
    gcsResult,     \* <<>> or <<the returned text>>
    \* ---- the lifetime of the provider ----
    minted,        \* the checkpoint ids handed out so far, in order
    \* ---- two edit operations on one document, each with its own updater ----
    duoPc,         \* per operation: "idle", "placeholder", "streaming", "flush",
                   \* "flushed", "failed"
    duoAccumulated, \* per operation: the streamed text so far
    duoPending,    \* per operation: pending / pendingText, <<>> for null
    duoLastLen,    \* per operation: lastLen / lastLength
    duoBusy,       \* per operation: busy / editBusy
    duoStart,      \* the chat edit: startOffset
    duoEnd,        \* the chat edit: currentEnd
    landed,        \* the operations whose edits were applied, in order
    \* ---- the webview messages of the chat: sendMessage, sendImageMessage, ----
    \* ---- executePlan, setMode                                             ----
    currentMode,   \* this.currentMode: "ask", "plan" or "agent"
    hPc,           \* the running message: "idle", "gate" (awaiting isAuthenticated),
                   \* "try" (inside the try block of its handler)
    hEntry,        \* the message being handled: "none", "sendMessage",
                   \* "sendImageMessage", "executePlan"
    hHandler,      \* the handler it was routed to: "none", "ask", "plan", "agent", "image"
    hAwaits,       \* awaited calls of the handler that have resolved
    previousMode,  \* executePlan: const previousMode
    hResult,       \* how the last message ended: "none", "returned", "thrown"
    posted,        \* the messages posted to the webview, in order
    handled,       \* messages taken so far
    modeMsgs,      \* setMode messages taken so far
    \* ---- the SSE parser of one streamed response ----
    ssePc,         \* "streaming", "ended"
    events,        \* the content deltas of the data lines of the stream, in order
    wire,          \* the bytes of the response body
    sent,          \* bytes handed to res.on('data') so far
    sseBuffer,     \* buffer: the incomplete last line
    sseAccumulated, \* accumulated
    delivered      \* the texts handed to onChunk, in order

fnVars == <<fnPc, current, addition, appended, code, language, incomplete>>

contVars ==
    <<contPc, contKind, contOption, attempt, assembled, calls, reasons, contResult>>

docVars == <<doc, docVersion, inflight, checkpoints, checkpointCounter, cpAct>>

opVars ==
    <<opPc, mode, cpId, origDoc, startOffset, originalLen, accumulated, newBlock,
      finalAttempt, finalRange, finalOutcome, flushWaited>>

sessionVars ==
    <<pending, lastLen, busy, currentEnd, applyPc, applyAttempt, applyText, lastWritten>>

mainVars == <<docVars, opVars, sessionVars>>

envVars == <<streamCap, resolved, replays, uiMessage>>

regionVars == <<regionPc, lines, instruction, selection, target>>

reqVars == <<reqPc, apiKey, reqAttempt, httpCalls, responses, backoffs, reqError>>

gcsVars ==
    <<gcsPc, gcsKey, gcsLanguage, configMaxTokens, modelWindow, inputTokens,
      maxTokensSent, gcsAccumulated, cleaned, cont, contAccumulated, gcsEnds,
      emitted, gcsResult>>

histVars == <<minted>>

duoVars ==
    <<duoPc, duoAccumulated, duoPending, duoLastLen, duoBusy, duoStart, duoEnd, landed>>

msgVars ==
    <<currentMode, hPc, hEntry, hHandler, hAwaits, previousMode, hResult, posted,
      handled, modeMsgs>>

sseVars == <<ssePc, events, wire, sent, sseBuffer, sseAccumulated, delivered>>

extVars == <<histVars, duoVars, msgVars, sseVars>>

vars == <<fnVars, contVars, mainVars, envVars, regionVars, reqVars, gcsVars, extVars>>

Null == "null"

\* no edit operation, no document
MainIdle ==
    /\ doc = <<>> /\ docVersion = 0 /\ inflight = <<>>
    /\ checkpoints = {} /\ checkpointCounter = 0 /\ cpAct = <<>>
    /\ opPc = "off" /\ mode = Null /\ cpId = 0 /\ origDoc = <<>>
    /\ startOffset = 0 /\ originalLen = 0 /\ accumulated = <<>> /\ newBlock = <<>>
    /\ finalAttempt = 0 /\ finalRange = <<0, 0>>
    /\ finalOutcome = "none" /\ flushWaited = FALSE
    /\ pending = <<>> /\ lastLen = 0 /\ busy = FALSE /\ currentEnd = 0
    /\ applyPc = "idle" /\ applyAttempt = 0 /\ applyText = <<>> /\ lastWritten = <<>>
    /\ streamCap = 0 /\ resolved = {} /\ replays = 0 /\ uiMessage = "none"

\* no target region is being chosen
RegionIdle ==
    /\ regionPc = "idle"
    /\ lines = <<>> /\ instruction = <<>> /\ selection = <<0, 0>> /\ target = <<>>

\* requestCompletion is not running
ReqIdle ==
    /\ reqPc = "idle" /\ apiKey = TRUE /\ reqAttempt = 0 /\ httpCalls = 0
    /\ responses = <<>> /\ backoffs = <<>> /\ reqError = <<>>

\* generateCodeStreaming is not running
GcsIdle ==
    /\ gcsPc = "idle" /\ gcsKey = TRUE /\ gcsLanguage = <<>>
    /\ configMaxTokens = 0 /\ modelWindow = 0 /\ inputTokens = 0
    /\ maxTokensSent = <<>> /\ gcsAccumulated = <<>> /\ cleaned = <<>>
    /\ cont = 0 /\ contAccumulated = <<>> /\ gcsEnds = <<>>
    /\ emitted = <<>> /\ gcsResult = <<>>

\* no checkpoint id has been handed out
HistIdle == minted = <<>>

\* the two operations: a chat edit of a selection, and the generateCode command
Writers == {"chat", "command"}

\* the two operations are not followed
DuoIdle ==
    /\ duoPc = [w \in Writers |-> "off"]
    /\ duoAccumulated = [w \in Writers |-> <<>>]
    /\ duoPending = [w \in Writers |-> <<>>]
    /\ duoLastLen = [w \in Writers |-> 0]
    /\ duoBusy = [w \in Writers |-> FALSE]
    /\ duoStart = 0 /\ duoEnd = 0 /\ landed = <<>>

\* no chat message is followed
MsgIdle ==
    /\ currentMode = "agent" /\ hPc = "off" /\ hEntry = "none" /\ hHandler = "none"
    /\ hAwaits = 0 /\ previousMode = "agent" /\ hResult = "none" /\ posted = <<>>
    /\ handled = 0 /\ modeMsgs = 0

\* no streamed response is parsed
SseIdle ==
    /\ ssePc = "off" /\ events = <<>> /\ wire = <<>> /\ sent = 0
    /\ sseBuffer = <<>> /\ sseAccumulated = <<>> /\ delivered = <<>>

ExtIdle == HistIdle /\ DuoIdle /\ MsgIdle /\ SseIdle

\* the harness of the pure functions is not in use
FnIdle ==
    /\ fnPc = "idle"
    /\ current = <<>> /\ addition = <<>> /\ appended = <<>>
    /\ code = <<>> /\ language = <<>> /\ incomplete = FALSE

-----------------------------------------------------------------------------
(* Bounds of the model.                                                    *)

\* longest short text handed to appendAvoidingOverlap
MaxStrLen == 3

\* longest run of delimiter characters inside a text handed to looksIncomplete
MaxCoreLen == 2

-----------------------------------------------------------------------------
(* Texts.                                                                  *)

Min(a, b) == IF a < b THEN a ELSE b

Max(a, b) == IF a > b THEN a ELSE b

\* all texts over alphabet of length 0..n
TextsUpTo(alphabet, n) == UNION {[1..k -> alphabet] : k \in 0..n}

\* the text made of n copies of character c
Repeat(c, n) == [i \in 1..n |-> c]

\* a slice that starts one character late
SliceFromNext(s, from) == SubSeq(s, from + 2, Len(s))

\* String.prototype.slice(from) / slice(from, to), 0-based, from <= to
SliceFrom(s, from) == SubSeq(s, from + 1, Len(s))

Slice(s, from, to) == SubSeq(s, from + 1, Min(to, Len(s)))

\* String.prototype.startsWith / endsWith
StartsWith(s, t) == Len(t) <= Len(s) /\ SubSeq(s, 1, Len(t)) = t

EndsWith(s, t) == Len(t) <= Len(s) /\ SubSeq(s, Len(s) - Len(t) + 1, Len(s)) = t

\* the characters String.prototype.trim and the regex class \s remove
WhiteSpace == {" ", "\n"}

RECURSIVE TrimStart(_)
TrimStart(s) ==
    IF s # <<>> /\ Head(s) \in WhiteSpace THEN TrimStart(Tail(s)) ELSE s

RECURSIVE TrimEnd(_)
TrimEnd(s) ==
    IF s # <<>> /\ s[Len(s)] \in WhiteSpace
    THEN TrimEnd(SubSeq(s, 1, Len(s) - 1))
    ELSE s

\* String.prototype.trim
Trim(s) == TrimEnd(TrimStart(s))

\* number of positions of s holding a character of set cs:
\* (s.match(/[cs]/g) || []).length
Count(s, cs) == Cardinality({i \in 1..Len(s) : s[i] \in cs})

\* String.prototype.toLowerCase on the letters the model uses
LowerChar(c) ==
    CASE c = "H" -> "h" [] c = "T" -> "t" [] c = "M" -> "m" [] c = "L" -> "l"
      [] c = "S" -> "s" [] c = "X" -> "x" [] c = "C" -> "c" [] c = "J" -> "j"
      [] c = "F" -> "f" [] c = "O" -> "o" [] c = "E" -> "e" [] c = "R" -> "r"
      [] OTHER -> c

ToLowerCase(s) == [i \in 1..Len(s) |-> LowerChar(s[i])]

\* s contains t as a contiguous substring
Contains(s, t) ==
    \E i \in 0..(Len(s) - Len(t)) : SubSeq(s, i + 1, i + Len(t)) = t

\* cleanResponse: trim, then unwrap a fenced block.  Both fence patterns need
\* three consecutive backticks; on a text without them the result is the trimmed
\* text.  The texts of the model hold no backtick.
cleanResponse(s) == Trim(s)

-----------------------------------------------------------------------------
(* appendAvoidingOverlap                                                   *)

\* the overlap-detection window
OverlapWindow == 500

\* Math.min(500, current.length, addition.length)
MaxOverlapNoWindow(cur, add) == Min(Len(cur), Len(add))

maxOverlap(cur, add) == Min(OverlapWindow, Min(Len(cur), Len(add)))

\* the for loop, from the largest candidate down to 1
RECURSIVE OverlapLoop(_, _, _)
OverlapLoop(cur, add, overlap) ==
    IF overlap > 0
    THEN IF EndsWith(cur, Slice(add, 0, overlap))
         THEN cur \o SliceFrom(add, overlap)
         ELSE OverlapLoop(cur, add, overlap - 1)
    ELSE cur \o add

\* a scan that finds no overlap
OverlapScanNone(cur, add) == cur \o add

OverlapScan(cur, add) == OverlapLoop(cur, add, maxOverlap(cur, add))

appendAvoidingOverlap(cur, add) ==
    IF cur = <<>> THEN add
    ELSE IF add = <<>> THEN cur
    ELSE OverlapScan(cur, add)

-----------------------------------------------------------------------------
(* looksIncomplete                                                         *)

\* trimmed.length < 50
MinJudgeLen == 50

HtmlCloseOpen == <<"<", "/", "h", "t", "m", "l">>

\* /<\/html\s*>\s*$/i.test(trimmed): "</html", white space, ">", white space,
\* end of text
RECURSIVE SkipSpaceBack(_, _)
SkipSpaceBack(s, i) ==
    IF i >= 1 /\ s[i] \in WhiteSpace THEN SkipSpaceBack(s, i - 1) ELSE i

EndsWithHtmlClose(s) ==
    LET e == SkipSpaceBack(s, Len(s))
    IN  /\ e >= 1
        /\ s[e] = ">"
        /\ LET f == SkipSpaceBack(s, e - 1)
           IN  /\ f >= Len(HtmlCloseOpen)
               /\ ToLowerCase(SubSeq(s, f - Len(HtmlCloseOpen) + 1, f)) = HtmlCloseOpen

\* /react|jsx|tsx/i.test(lang)
IsReactLang(lang) ==
    \/ Contains(lang, <<"r", "e", "a", "c", "t">>)
    \/ Contains(lang, <<"j", "s", "x">>)
    \/ Contains(lang, <<"t", "s", "x">>)

IsHtmlLang(lang) == lang = <<"h", "t", "m", "l">> \/ lang = <<"h", "t", "m">>

IsCssLang(lang) == lang = <<"c", "s", "s">> \/ lang = <<"s", "c", "s", "s">>

\* the closing delimiters counted by the JS/TS and general branch: /[})]/g
DefaultCloses == {"}", ")"}

\* the opening delimiters counted by the JS/TS and general branch: /[{([]/g
DefaultOpens == {"{", "(", "["}

\* a guard that only lets the empty text off
TooShortEmptyOnly(trimmed) == trimmed = <<>>

\* if (!trimmed || trimmed.length < 50) { return false; }
TooShort(trimmed) == trimmed = <<>> \/ Len(trimmed) < MinJudgeLen

looksIncomplete(text, lang0) ==
    LET trimmed == Trim(text)
        lang == ToLowerCase(lang0)
    IN  IF TooShort(trimmed) THEN FALSE
        ELSE IF IsHtmlLang(lang) THEN ~EndsWithHtmlClose(trimmed)
        ELSE IF IsReactLang(lang)
             THEN Count(trimmed, {"{", "("}) > Count(trimmed, {"}", ")"})
        ELSE IF IsCssLang(lang)
             THEN Count(trimmed, {"{"}) > Count(trimmed, {"}"})
        ELSE Count(trimmed, DefaultOpens) > Count(trimmed, DefaultCloses)

-----------------------------------------------------------------------------
(* completeWithContinuation and generateCode: the continuation loop.       *)

\* const MAX_CONTINUATIONS = 4 (generateCode)
GenerateCodeRounds == 4

\* options?.maxContinuations ?? 5 (completeWithContinuation)
DefaultRounds == 5

\* largest options.maxContinuations a caller passes in the model
MaxContOption == 3

MAX_CONTINUATIONS(kind, option) ==
    IF kind = "generateCode" THEN GenerateCodeRounds
    ELSE IF option = {} THEN DefaultRounds
    ELSE CHOOSE n \in option : TRUE

\* the loop condition: attempt < MAX_CONTINUATIONS
LoopContinuesInclusive(att, max) == att <= max

LoopContinues(att, max) == att < max

\* if (result.finishReason !== 'length') break
NeverBreaks(finishReason) == FALSE

BreaksOn(finishReason) == finishReason # "length"

\* the piece merged into assembled: result.content (completeWithContinuation),
\* cleanResponse(result.content) (generateCode)
Piece(kind, content) ==
    IF kind = "generateCode" THEN cleanResponse(content) ELSE content

\* the returned text: assembled (completeWithContinuation), assembled.trim()
\* (generateCode)
Returned(kind, text) == IF kind = "generateCode" THEN Trim(text) ELSE text

\* what requestCompletion returns: a content that is not blank, and
\* choice.finish_reason, which may be missing
Contents == {<<"a">>, <<"a", "b">>, <<" ", "b", "a">>}

FinishReasons == {"length", "stop", Null}

ContIdle ==
    /\ contPc = "idle"
    /\ contKind = Null /\ contOption = {}
    /\ attempt = 0 /\ assembled = <<>> /\ calls = 0
    /\ reasons = <<>> /\ contResult = <<>>

ContInit ==
    /\ contPc = "start"
    /\ contKind \in {"completeWithContinuation", "generateCode"}
    /\ contOption \in
          IF contKind = "generateCode" THEN {{}}
          ELSE {{}} \cup {{n} : n \in 0..MaxContOption}
    /\ attempt = 0 /\ assembled = <<>> /\ calls = 0
    /\ reasons = <<>> /\ contResult = <<>>

\* entry of the for loop: the first call is issued, or the loop is skipped
ContEnter ==
    /\ contPc = "start"
    /\ IF LoopContinues(attempt, MAX_CONTINUATIONS(contKind, contOption))
       THEN /\ calls' = calls + 1
            /\ contPc' = "awaiting"
            /\ UNCHANGED contResult
       ELSE /\ contPc' = "done"
            /\ contResult' = Returned(contKind, assembled)
            /\ UNCHANGED calls
    /\ UNCHANGED <<contKind, contOption, attempt, assembled, reasons>>
    /\ UNCHANGED <<fnVars, mainVars, envVars, regionVars, reqVars, gcsVars, extVars>>

\* requestCompletion returns: merge, then break, go round again or leave the loop
ContResponse(content, finishReason) ==
    /\ contPc = "awaiting"
    /\ assembled' = appendAvoidingOverlap(assembled, Piece(contKind, content))
    /\ reasons' = Append(reasons, finishReason)
    /\ IF BreaksOn(finishReason)
       THEN /\ contPc' = "done"
            /\ contResult' = Returned(contKind, assembled')
            /\ UNCHANGED <<attempt, calls>>
       ELSE /\ attempt' = attempt + 1
            /\ IF LoopContinues(attempt', MAX_CONTINUATIONS(contKind, contOption))
               THEN /\ calls' = calls + 1
                    /\ contPc' = "awaiting"
                    /\ UNCHANGED contResult
               ELSE /\ contPc' = "done"
                    /\ contResult' = Returned(contKind, assembled')
                    /\ UNCHANGED calls
    /\ UNCHANGED <<contKind, contOption>>
    /\ UNCHANGED <<fnVars, mainVars, envVars, regionVars, reqVars, gcsVars, extVars>>

\* requestCompletion throws (API error, retries exhausted, blank response):
\* the error leaves the loop
ContThrow ==
    /\ contPc = "awaiting"
    /\ contPc' = "failed"
    /\ UNCHANGED <<contKind, contOption, attempt, assembled, calls, reasons, contResult>>
    /\ UNCHANGED <<fnVars, mainVars, envVars, regionVars, reqVars, gcsVars, extVars>>

ContNext ==
    \/ ContEnter
    \/ \E content \in Contents, finishReason \in FinishReasons :
          ContResponse(content, finishReason)
    \/ ContThrow

InitCont == ContInit /\ FnIdle /\ MainIdle /\ RegionIdle /\ ReqIdle /\ GcsIdle /\ ExtIdle

SpecCont == InitCont /\ [][ContNext]_vars

-----------------------------------------------------------------------------
(* The live document.                                                      *)

\* longest streamed text
MaxAccum == 4

\* longest streamed text when a stream updater session is followed on its own
MaxAccumSession == 6

\* longest text one stream delta carries
MaxDelta == 2

\* minChars of the range updater (the callers pass 150) and of the whole-file
\* updaters (200), scaled to the texts of the model
MinCharsRange == 2

MinCharsWhole == 3

\* the document before any operation, and the characters the model streams
InitDocs == {<<"a", "x", "x", "d">>}

OutChars == {"x", " "}

Deltas == TextsUpTo(OutChars, MaxDelta) \ {<<>>}

\* '<!-- ... Generating code... -->\n'
Placeholder == <<"~", "\n">>

\* document.positionAt(offset): an offset past the end is the end
positionAt(d, offset) == Min(offset, Len(d))

\* the effect of eb.replace(range, text) on the text d
Replace(d, from, to, text) == SubSeq(d, 1, from) \o text \o SubSeq(d, to + 1, Len(d))

Edit(owner, from, to, text, ver) ==
    [owner |-> owner, from |-> from, to |-> to, text |-> text, ver |-> ver]

RemoveAt(q, i) == SubSeq(q, 1, i - 1) \o SubSeq(q, i + 1, Len(q))

\* how an editor.edit call settles: applied (true), rejected (false), or thrown;
\* it is applied only if the document still has the version it was built on
Outcomes == {"ok", "rejected", "throw"}

CanSettle(e, outcome) == outcome = "ok" => e.ver = docVersion

DocAfter(e, outcome) ==
    IF outcome = "ok" THEN Replace(doc, e.from, e.to, e.text) ELSE doc

VersionAfter(outcome) == IF outcome = "ok" THEN docVersion + 1 ELSE docVersion

-----------------------------------------------------------------------------
(* makeRangeStreamUpdater, makeStreamUpdater, applyPending.                *)

minChars(m) == IF m = "selection" THEN MinCharsRange ELSE MinCharsWhole

\* if (accumulated.length - lastLen < minChars) return
\* a threshold that lets a growth of min - 1 through
ThrottledBelow(len, last, min) == len - last < min - 1

Throttled(len, last, min) == len - last < min

\* apply: if (busy || pending === null) return
ApplyGuardNoBusy(isBusy, pend) == pend # <<>>

ApplyGuard(isBusy, pend) == ~isBusy /\ pend # <<>>

\* replaceFullDocument(editor, text, 2) inside apply of makeStreamUpdater
WholeApplyRetries == 2

\* an edit on the range the session started from
ApplyEditStaleEnd(text, curEnd, d, ver) ==
    IF mode = "selection"
    THEN Edit("apply", positionAt(d, startOffset),
              positionAt(d, startOffset + originalLen), text, ver)
    ELSE Edit("apply", 0, Len(d), text, ver)

\* the edit apply issues: the tracked range (range updater), the whole text
ApplyEdit(text, curEnd, d, ver) ==
    IF mode = "selection"
    THEN Edit("apply", positionAt(d, startOffset), positionAt(d, curEnd), text, ver)
    ELSE Edit("apply", 0, Len(d), text, ver)

\* if (ok) currentEnd = startOffset + text.length
NewCurrentEndAlways(ok, text) == startOffset + Len(text)

NewCurrentEnd(ok, text) == IF ok THEN startOffset + Len(text) ELSE currentEnd

\* a call of apply() with the given values of pending, busy, currentEnd, the
\* document and the edits in flight; pcNow is applyPc if apply returns at once
ApplyCall(pend, isBusy, curEnd, d, ver, queue, pcNow) ==
    IF ApplyGuard(isBusy, pend)
    THEN /\ busy' = TRUE
         /\ pending' = <<>>
         /\ applyText' = pend[1]
         /\ applyAttempt' = 0
         /\ applyPc' = "editing"
         /\ inflight' = Append(queue, ApplyEdit(pend[1], curEnd, d, ver))
    ELSE /\ busy' = isBusy
         /\ pending' = pend
         /\ applyPc' = pcNow
         /\ inflight' = queue
         /\ UNCHANGED <<applyText, applyAttempt>>

\* an apply that ends without looking at the slot again
DrainSkips(curEnd, d, ver, queue) ==
    /\ busy' = FALSE
    /\ pending' = pending
    /\ applyPc' = "idle"
    /\ inflight' = queue
    /\ UNCHANGED <<applyText, applyAttempt>>

\* the end of apply: busy = false; if (pending !== null) { apply(); }
Drain(curEnd, d, ver, queue) ==
    ApplyCall(pending, FALSE, curEnd, d, ver, queue, "idle")

\* pending = accumulated: the one slot takes the newest text
Enqueue(pend, acc) == Append(pend, acc)

\* a slot that keeps the text it holds
KeepOldest(pend, acc) == IF pend = <<>> THEN <<acc>> ELSE pend

Overwrite(pend, acc) == <<acc>>

\* onChunk(accumulated)
onChunk(acc) ==
    IF Throttled(Len(acc), lastLen, minChars(mode))
    THEN UNCHANGED <<pending, lastLen, busy, applyPc, applyAttempt, applyText, inflight>>
    ELSE /\ lastLen' = Len(acc)
         /\ ApplyCall(Overwrite(pending, acc), busy, currentEnd, doc, docVersion,
                      inflight, applyPc)

\* the edit of apply settles.  Range updater and applyPending: busy is cleared
\* whatever the outcome.  makeStreamUpdater: replaceFullDocument returns true,
\* or sleeps 120 ms before its next attempt.
ApplyEditDone(i, outcome) ==
    /\ i \in 1..Len(inflight)
    /\ inflight[i].owner = "apply"
    /\ CanSettle(inflight[i], outcome)
    /\ LET e == inflight[i]
           ok == outcome = "ok"
       IN  /\ doc' = DocAfter(e, outcome)
           /\ docVersion' = VersionAfter(outcome)
           /\ lastWritten' = IF ok THEN <<e.text>> ELSE lastWritten
           /\ currentEnd' = IF mode = "selection" THEN NewCurrentEnd(ok, e.text)
                            ELSE currentEnd
           /\ IF mode = "whole" /\ ~ok
              THEN /\ applyPc' = "sleeping"
                   /\ inflight' = RemoveAt(inflight, i)
                   /\ UNCHANGED <<pending, busy, applyAttempt, applyText>>
              ELSE Drain(currentEnd', doc', docVersion', RemoveAt(inflight, i))
    /\ UNCHANGED <<checkpoints, checkpointCounter, cpAct, opVars, lastLen>>
    /\ UNCHANGED <<fnVars, contVars, envVars, regionVars, reqVars, gcsVars, extVars>>

\* makeStreamUpdater: the 120 ms sleep of replaceFullDocument ends; next attempt,
\* or the retries are exhausted and apply goes on
ApplyRetryWake ==
    /\ applyPc = "sleeping"
    /\ IF applyAttempt + 1 < WholeApplyRetries
       THEN /\ applyAttempt' = applyAttempt + 1
            /\ applyPc' = "editing"
            /\ inflight' = Append(inflight, ApplyEdit(applyText, currentEnd, doc, docVersion))
            /\ UNCHANGED <<pending, busy, applyText>>
       ELSE Drain(currentEnd, doc, docVersion, inflight)
    /\ UNCHANGED <<doc, docVersion, checkpoints, checkpointCounter, cpAct, opVars>>
    /\ UNCHANGED <<lastLen, currentEnd, lastWritten>>
    /\ UNCHANGED <<fnVars, contVars, envVars, regionVars, reqVars, gcsVars, extVars>>

-----------------------------------------------------------------------------
(* The edit operations: the agent-mode code edit of handleUserMessage      *)
(* (selection mode and whole-file mode) and the generateCode command.      *)

\* what the caller tells the user when the operation leaves at pc: the handler
\* and the command post their success message after the final write whatever it
\* returned ('Code updated in editor', 'Code generated'); their catch block
\* posts the error
Told(pc) ==
    IF pc = "done" THEN "updated"
    ELSE IF pc = "failed" THEN "error"
    ELSE "none"

\* most checkpoints captured in one behaviour
MaxCaptures == 3

\* an id that does not move with the counter
SameId(counter) == 1

\* ++this.checkpointCounter
NextId(counter) == counter + 1

FreshSession ==
    /\ pending' = <<>> /\ lastLen' = 0 /\ busy' = FALSE
    /\ applyPc' = "idle" /\ applyAttempt' = 0 /\ applyText' = <<>>
    /\ lastWritten' = <<>>

\* handleUserMessage, code-edit intent: the checkpoint is stored, the strategy
\* chosen, the updater created and the streaming call started.  A document of
\* the model has at most 80 lines, so an empty selection means whole-file mode.
BeginEdit(selStart, selEnd) ==
    /\ opPc = "idle"
    /\ checkpointCounter < MaxCaptures
    /\ selStart \in 0..Len(doc) /\ selEnd \in selStart..Len(doc)
    /\ checkpointCounter' = NextId(checkpointCounter)
    /\ checkpoints' = {c \in checkpoints : c.id # checkpointCounter'}
                        \cup {[id |-> checkpointCounter', content |-> doc]}
    /\ cpId' = checkpointCounter'
    /\ mode' = IF selStart # selEnd THEN "selection" ELSE "whole"
    /\ startOffset' = IF selStart # selEnd THEN selStart ELSE 0
    /\ originalLen' = selEnd - selStart
    /\ currentEnd' = startOffset' + originalLen'
    /\ FreshSession
    /\ origDoc' = doc
    /\ opPc' = "streaming"
    /\ minted' = Append(minted, cpId')
    /\ UNCHANGED <<duoVars, msgVars, sseVars>>
    /\ UNCHANGED <<doc, docVersion, inflight, cpAct, accumulated, newBlock,
                   finalAttempt, finalRange, finalOutcome, flushWaited>>
    /\ UNCHANGED <<fnVars, contVars, envVars, regionVars, reqVars, gcsVars>>

\* prompt2code.generateCode: the instruction range is replaced by a placeholder
BeginCommand(from, to) ==
    /\ opPc = "idle"
    /\ from \in 0..Len(doc) /\ to \in (from + 1)..Len(doc)
    /\ inflight' = Append(inflight, Edit("placeholder", from, to, Placeholder, docVersion))
    /\ mode' = "command"
    /\ opPc' = "placeholder"
    /\ UNCHANGED <<doc, docVersion, checkpoints, checkpointCounter, cpAct, cpId, origDoc,
                   startOffset, originalLen, accumulated, newBlock, finalAttempt, finalRange,
                   finalOutcome, flushWaited, sessionVars>>
    /\ UNCHANGED <<fnVars, contVars, envVars, regionVars, reqVars, gcsVars, extVars>>

\* the placeholder edit settles (its result is not looked at); the updater state
\* is created and the streaming call started.  A throw ends the command.
PlaceholderDone(i, outcome) ==
    /\ opPc = "placeholder"
    /\ i \in 1..Len(inflight)
    /\ inflight[i].owner = "placeholder"
    /\ CanSettle(inflight[i], outcome)
    /\ doc' = DocAfter(inflight[i], outcome)
    /\ docVersion' = VersionAfter(outcome)
    /\ inflight' = RemoveAt(inflight, i)
    /\ origDoc' = doc'
    /\ opPc' = IF outcome = "throw" THEN "failed" ELSE "streaming"
    /\ UNCHANGED <<checkpoints, checkpointCounter, cpAct, mode, cpId, startOffset,
                   originalLen, accumulated, newBlock, finalAttempt, finalRange, finalOutcome,
                   flushWaited, sessionVars>>
    /\ uiMessage' = Told(opPc')
    /\ UNCHANGED <<fnVars, contVars, streamCap, resolved, replays, regionVars, reqVars, gcsVars, extVars>>

\* res.on('data'): a content delta arrives; accumulated += delta; onChunk(accumulated)
StreamData(delta) ==
    /\ opPc = "streaming"
    /\ Len(accumulated) + Len(delta) <= streamCap
    /\ accumulated' = accumulated \o delta
    /\ onChunk(accumulated')
    /\ UNCHANGED <<doc, docVersion, checkpoints, checkpointCounter, cpAct>>
    /\ UNCHANGED <<opPc, mode, cpId, origDoc, startOffset, originalLen, newBlock,
                   finalAttempt, finalRange, finalOutcome, flushWaited>>
    /\ UNCHANGED <<currentEnd, lastWritten>>
    /\ UNCHANGED <<fnVars, contVars, envVars, regionVars, reqVars, gcsVars, extVars>>

\* res.on('end'): cleaned = cleanResponse(accumulated); onChunk(cleaned); return
\* cleaned.  (generateCodeStreaming asks for a continuation first when
\* looksIncomplete(cleaned): never for a text under 50 characters.)
StreamEnd ==
    /\ opPc = "streaming"
    /\ ~looksIncomplete(cleanResponse(accumulated), <<"j", "s">>)
    /\ newBlock' = cleanResponse(accumulated)
    /\ onChunk(newBlock')
    /\ opPc' = "flush"
    /\ UNCHANGED <<doc, docVersion, checkpoints, checkpointCounter, cpAct>>
    /\ UNCHANGED <<mode, cpId, origDoc, startOffset, originalLen, accumulated,
                   finalAttempt, finalRange, finalOutcome, flushWaited>>
    /\ UNCHANGED <<currentEnd, lastWritten>>
    /\ UNCHANGED <<fnVars, contVars, envVars, regionVars, reqVars, gcsVars, extVars>>

\* the request fails (HTTP status >= 400, connection error): the generation call
\* throws, the handler reports the error; no flush, no final write
StreamError ==
    /\ opPc = "streaming"
    /\ opPc' = "failed"
    /\ UNCHANGED <<docVars, sessionVars>>
    /\ UNCHANGED <<mode, cpId, origDoc, startOffset, originalLen, accumulated, newBlock,
                   finalAttempt, finalRange, finalOutcome, flushWaited>>
    /\ uiMessage' = Told(opPc')
    /\ UNCHANGED <<fnVars, contVars, streamCap, resolved, replays, regionVars, reqVars, gcsVars, extVars>>

\* flush: while (busy) { await 80 ms }
FlushMayResolveAlways(isBusy) == TRUE

FlushMayResolve(isBusy) == ~isBusy

FlushPoll ==
    /\ opPc = "flush"
    /\ ~FlushMayResolve(busy)
    /\ flushWaited' = TRUE
    /\ UNCHANGED <<docVars, sessionVars>>
    /\ UNCHANGED <<opPc, mode, cpId, origDoc, startOffset, originalLen, accumulated,
                   newBlock, finalAttempt, finalRange, finalOutcome>>
    /\ UNCHANGED <<fnVars, contVars, envVars, regionVars, reqVars, gcsVars, extVars>>

FlushResolve ==
    /\ opPc = "flush"
    /\ FlushMayResolve(busy)
    /\ opPc' = "final"
    /\ UNCHANGED <<docVars, sessionVars>>
    /\ UNCHANGED <<mode, cpId, origDoc, startOffset, originalLen, accumulated, newBlock,
                   finalAttempt, finalRange, finalOutcome, flushWaited>>
    /\ UNCHANGED <<fnVars, contVars, envVars, regionVars, reqVars, gcsVars, extVars>>

\* the retries of the final write: replaceRange(..., 3), replaceFullDocument(..., 5),
\* the loop of the command (3)
FinalRetriesRange == 3

FinalRetriesWhole == 5

FinalRetriesCommand == 3

FinalRetries(m) ==
    IF m = "selection" THEN FinalRetriesRange
    ELSE IF m = "whole" THEN FinalRetriesWhole
    ELSE FinalRetriesCommand

\* the end offset computed before the stream: startOffset + originalLen
safeEndOriginal(textNow) == Min(Len(textNow), startOffset + originalLen)

\* Math.min(textNow.length, startOffset + Math.max(newBlock.length, originalLen))
safeEnd(textNow) ==
    Min(Len(textNow), startOffset + Max(Len(newBlock), originalLen))

\* selection mode: the final write is skipped when the text after startOffset
\* starts with newBlock
FinalNeeded(textNow) ==
    mode = "selection" => ~StartsWith(SliceFrom(textNow, startOffset), newBlock)

\* the edit of one attempt of the final write.  replaceRange keeps the range its
\* caller computed (from, to); the other two take the whole current text.
FinalEdit(from, to) ==
    IF mode = "selection"
    THEN Edit("final", from, to, newBlock, docVersion)
    ELSE Edit("final", 0, Len(doc), newBlock, docVersion)

FinalStart ==
    /\ opPc = "final"
    /\ IF FinalNeeded(doc)
       THEN /\ inflight' = Append(inflight,
                  FinalEdit(positionAt(doc, startOffset), positionAt(doc, safeEnd(doc))))
            /\ finalAttempt' = 0
            /\ finalRange' = <<positionAt(doc, startOffset), positionAt(doc, safeEnd(doc))>>
            /\ opPc' = "finalEdit"
            /\ UNCHANGED finalOutcome
       ELSE /\ finalOutcome' = "skipped"
            /\ opPc' = "done"
            /\ UNCHANGED <<inflight, finalAttempt, finalRange>>
    /\ UNCHANGED <<doc, docVersion, checkpoints, checkpointCounter, cpAct, sessionVars>>
    /\ UNCHANGED <<mode, cpId, origDoc, startOffset, originalLen, accumulated, newBlock,
                   flushWaited>>
    /\ uiMessage' = Told(opPc')
    /\ UNCHANGED <<fnVars, contVars, streamCap, resolved, replays, regionVars, reqVars, gcsVars, extVars>>

\* an attempt of the final write settles: done when applied; otherwise 120 ms
\* sleep.  The loop of the command has no try/catch: a throw ends the command.
FinalEditDone(i, outcome) ==
    /\ opPc = "finalEdit"
    /\ i \in 1..Len(inflight)
    /\ inflight[i].owner = "final"
    /\ CanSettle(inflight[i], outcome)
    /\ doc' = DocAfter(inflight[i], outcome)
    /\ docVersion' = VersionAfter(outcome)
    /\ inflight' = RemoveAt(inflight, i)
    /\ opPc' = IF outcome = "ok" THEN "done"
               ELSE IF mode = "command" /\ outcome = "throw" THEN "failed"
               ELSE "finalSleep"
    /\ finalOutcome' = IF outcome = "ok" THEN "ok" ELSE finalOutcome
    /\ UNCHANGED <<checkpoints, checkpointCounter, cpAct, sessionVars>>
    /\ UNCHANGED <<mode, cpId, origDoc, startOffset, originalLen, accumulated, newBlock,
                   finalAttempt, finalRange, flushWaited>>
    /\ uiMessage' = Told(opPc')
    /\ UNCHANGED <<fnVars, contVars, streamCap, resolved, replays, regionVars, reqVars, gcsVars, extVars>>

\* the sleep ends: next attempt, or the retries are exhausted (the result of
\* replaceRange / replaceFullDocument is not looked at)
FinalRetryWake ==
    /\ opPc = "finalSleep"
    /\ finalAttempt' = finalAttempt + 1
    /\ IF finalAttempt' < FinalRetries(mode)
       THEN /\ inflight' = Append(inflight,
                  FinalEdit(finalRange[1], finalRange[2]))
            /\ opPc' = "finalEdit"
            /\ UNCHANGED finalOutcome
       ELSE /\ finalOutcome' = "failed"
            /\ opPc' = "done"
            /\ UNCHANGED inflight
    /\ UNCHANGED <<doc, docVersion, checkpoints, checkpointCounter, cpAct, sessionVars>>
    /\ UNCHANGED <<mode, cpId, origDoc, startOffset, originalLen, accumulated, newBlock,
                   finalRange, flushWaited>>
    /\ uiMessage' = Told(opPc')
    /\ UNCHANGED <<fnVars, contVars, streamCap, resolved, replays, regionVars, reqVars, gcsVars, extVars>>

-----------------------------------------------------------------------------
(* The checkpointAction message handler.                                   *)

\* most checkpointAction messages for an id already resolved
MaxReplays == 2

ResolvedIds == {r.id : r \in resolved}

\* if (data.action === 'discard') { restore }
RestoresAlways(action) == TRUE

Restores(action) == action = "discard"

\* const cp = this.checkpoints.get(data.id); if (!cp) break
Found(id) == \E c \in checkpoints : c.id = id

\* this.checkpoints.delete(data.id)
StoreKept(id) == checkpoints

StoreAfterDelete(id) == {d \in checkpoints : d.id # id}

\* checkpointAction: nothing for an id that is not in the store; 'keep' deletes
\* the entry; 'discard' first opens and shows the document.  The model runs one
\* handler at a time.
CheckpointAction(id, action) ==
    /\ cpAct = <<>>
    /\ id \in ResolvedIds => replays < MaxReplays
    /\ replays' = IF id \in ResolvedIds THEN replays + 1 ELSE replays
    /\ IF Found(id)
       THEN LET c == CHOOSE c \in checkpoints : c.id = id
            IN  IF Restores(action)
                THEN /\ cpAct' = <<[id |-> id, action |-> action, content |-> c.content,
                                    pc |-> "opening"]>>
                     /\ UNCHANGED <<checkpoints, resolved>>
                ELSE /\ checkpoints' = StoreAfterDelete(id)
                     /\ resolved' = resolved \cup {[id |-> id, action |-> action]}
                     /\ UNCHANGED cpAct
       ELSE UNCHANGED <<checkpoints, cpAct, resolved>>
    /\ UNCHANGED <<doc, docVersion, inflight, checkpointCounter, opVars, sessionVars>>
    /\ UNCHANGED <<fnVars, contVars, streamCap, uiMessage, regionVars, reqVars, gcsVars, extVars>>

\* openTextDocument and showTextDocument resolved: the whole text is replaced by
\* the snapshot
DiscardOpened ==
    /\ cpAct # <<>>
    /\ cpAct[1].pc = "opening"
    /\ inflight' = Append(inflight, Edit("discard", 0, Len(doc), cpAct[1].content, docVersion))
    /\ cpAct' = <<[cpAct[1] EXCEPT !.pc = "editing"]>>
    /\ UNCHANGED <<doc, docVersion, checkpoints, checkpointCounter, opVars, sessionVars>>
    /\ UNCHANGED <<fnVars, contVars, envVars, regionVars, reqVars, gcsVars, extVars>>

\* openTextDocument or showTextDocument throws: 'Failed to restore checkpoint';
\* the entry is deleted all the same
DiscardOpenFails ==
    /\ cpAct # <<>>
    /\ cpAct[1].pc = "opening"
    /\ checkpoints' = StoreAfterDelete(cpAct[1].id)
    /\ resolved' = resolved \cup {[id |-> cpAct[1].id, action |-> cpAct[1].action]}
    /\ cpAct' = <<>>
    /\ UNCHANGED <<doc, docVersion, inflight, checkpointCounter, opVars, sessionVars>>
    /\ UNCHANGED <<fnVars, contVars, streamCap, replays, uiMessage, regionVars, reqVars, gcsVars, extVars>>

\* the restoring edit settles; its result is not looked at, a throw is caught;
\* the entry is deleted
DiscardEditDone(i, outcome) ==
    /\ cpAct # <<>>
    /\ cpAct[1].pc = "editing"
    /\ i \in 1..Len(inflight)
    /\ inflight[i].owner = "discard"
    /\ CanSettle(inflight[i], outcome)
    /\ doc' = DocAfter(inflight[i], outcome)
    /\ docVersion' = VersionAfter(outcome)
    /\ inflight' = RemoveAt(inflight, i)
    /\ checkpoints' = StoreAfterDelete(cpAct[1].id)
    /\ resolved' = resolved \cup {[id |-> cpAct[1].id, action |-> cpAct[1].action]}
    /\ cpAct' = <<>>
    /\ UNCHANGED <<checkpointCounter, opVars, sessionVars>>
    /\ UNCHANGED <<fnVars, contVars, streamCap, replays, uiMessage, regionVars, reqVars, gcsVars, extVars>>

-----------------------------------------------------------------------------
(* The specification of the edit operations.                               *)

Attached ==
    /\ doc \in InitDocs /\ docVersion = 0 /\ inflight = <<>>
    /\ checkpoints = {} /\ checkpointCounter = 0 /\ cpAct = <<>>
    /\ opPc = "idle" /\ mode = Null /\ cpId = 0 /\ origDoc = <<>>
    /\ startOffset = 0 /\ originalLen = 0 /\ accumulated = <<>> /\ newBlock = <<>>
    /\ finalAttempt = 0 /\ finalRange = <<0, 0>>
    /\ finalOutcome = "none" /\ flushWaited = FALSE
    /\ pending = <<>> /\ lastLen = 0 /\ busy = FALSE /\ currentEnd = 0
    /\ applyPc = "idle" /\ applyAttempt = 0 /\ applyText = <<>> /\ lastWritten = <<>>

MainInit ==
    /\ Attached
    /\ streamCap = MaxAccum /\ resolved = {} /\ replays = 0 /\ uiMessage = "none"

Init == MainInit /\ FnIdle /\ ContIdle /\ RegionIdle /\ ReqIdle /\ GcsIdle /\ ExtIdle

Next ==
    \/ \E selStart, selEnd \in 0..MaxAccum : BeginEdit(selStart, selEnd)
    \/ \E from, to \in 0..MaxAccum : BeginCommand(from, to)
    \/ \E i \in 1..Len(inflight), outcome \in Outcomes : PlaceholderDone(i, outcome)
    \/ \E delta \in Deltas : StreamData(delta)
    \/ StreamEnd
    \/ StreamError
    \/ \E i \in 1..Len(inflight), outcome \in Outcomes : ApplyEditDone(i, outcome)
    \/ ApplyRetryWake
    \/ FlushPoll
    \/ FlushResolve
    \/ FinalStart
    \/ \E i \in 1..Len(inflight), outcome \in Outcomes : FinalEditDone(i, outcome)
    \/ FinalRetryWake
    \/ \E id \in 1..checkpointCounter, action \in {"keep", "discard"} :
          CheckpointAction(id, action)
    \/ DiscardOpened
    \/ DiscardOpenFails
    \/ \E i \in 1..Len(inflight), outcome \in Outcomes : DiscardEditDone(i, outcome)

Spec == Init /\ [][Next]_vars

\* One chat edit up to the end of flush(), on a longer stream: the stream
\* updater session alone, without the final write and the checkpoint handler.
SessionInit ==
    /\ Attached
    /\ streamCap = MaxAccumSession /\ resolved = {} /\ replays = 0 /\ uiMessage = "none"

InitSession == SessionInit /\ FnIdle /\ ContIdle /\ RegionIdle /\ ReqIdle /\ GcsIdle /\ ExtIdle

SessionNext ==
    \/ \E selStart, selEnd \in 0..MaxAccum : BeginEdit(selStart, selEnd)
    \/ \E delta \in Deltas : StreamData(delta)
    \/ StreamEnd
    \/ \E i \in 1..Len(inflight), outcome \in Outcomes : ApplyEditDone(i, outcome)
    \/ ApplyRetryWake
    \/ FlushPoll
    \/ FlushResolve

SpecSession == InitSession /\ [][SessionNext]_vars

\* The handler of a chat message has returned or thrown; the provider takes the
\* next message.
NextMessage ==
    /\ opPc \in {"done", "failed"}
    /\ opPc' = "idle"
    /\ accumulated' = <<>> /\ newBlock' = <<>>
    /\ finalAttempt' = 0 /\ finalRange' = <<0, 0>>
    /\ finalOutcome' = "none" /\ flushWaited' = FALSE
    /\ uiMessage' = "none"
    /\ UNCHANGED <<docVars, sessionVars, mode, cpId, origDoc, startOffset, originalLen>>
    /\ UNCHANGED <<fnVars, contVars, streamCap, resolved, replays, regionVars, reqVars,
                   gcsVars, extVars>>

\* The checkpoints of one provider over several chat edits: captures, and the
\* keep and discard messages of the webview, in any order.
InitCaptures == MainInit /\ FnIdle /\ ContIdle /\ RegionIdle /\ ReqIdle /\ GcsIdle /\ ExtIdle

CapturesNext ==
    \/ \E selStart, selEnd \in 0..MaxAccum : BeginEdit(selStart, selEnd)
    \/ StreamError
    \/ NextMessage
    \/ \E id \in 1..checkpointCounter, action \in {"keep", "discard"} :
          CheckpointAction(id, action)
    \/ DiscardOpened
    \/ DiscardOpenFails
    \/ \E i \in 1..Len(inflight), outcome \in Outcomes : DiscardEditDone(i, outcome)

SpecCaptures == InitCaptures /\ [][CapturesNext]_vars

-----------------------------------------------------------------------------
(* Two edit operations on the same document at overlapping times: the chat *)
(* edit of a selection (makeRangeStreamUpdater) and the generateCode       *)
(* command (applyPending), each up to the end of its flush.  The webview   *)
(* handler is not awaited by its caller and the command is a separate      *)
(* entry point, so the steps of the two interleave at every await.         *)

\* longest text either operation streams
MaxAccumDuo == 3

\* the character each operation streams
StreamChar(w) == IF w = "chat" THEN "c" ELSE "g"

\* minChars of the two updaters (150 and 200), scaled
DuoMinChars(w) == IF w = "chat" THEN MinCharsRange ELSE MinCharsWhole

\* the edit apply / applyPending issues
DuoEdit(w, text, d, ver) ==
    IF w = "chat"
    THEN Edit(<<"apply", w>>, positionAt(d, duoStart'), positionAt(d, duoEnd'), text, ver)
    ELSE Edit(<<"apply", w>>, 0, Len(d), text, ver)

\* a call of apply() of operation w: the guard looks at the flag and the slot
\* of the session itself
DuoApplyCall(w, pend, isBusy, d, ver, queue) ==
    IF ApplyGuard(isBusy, pend)
    THEN /\ duoBusy' = [duoBusy EXCEPT ![w] = TRUE]
         /\ duoPending' = [duoPending EXCEPT ![w] = <<>>]
         /\ inflight' = Append(queue, DuoEdit(w, pend[1], d, ver))
    ELSE /\ duoBusy' = [duoBusy EXCEPT ![w] = isBusy]
         /\ duoPending' = [duoPending EXCEPT ![w] = pend]
         /\ inflight' = queue

\* onChunk(accumulated) of operation w
DuoOnChunk(w, acc) ==
    IF Throttled(Len(acc), duoLastLen[w], DuoMinChars(w))
    THEN UNCHANGED <<duoPending, duoLastLen, duoBusy, inflight>>
    ELSE /\ duoLastLen' = [duoLastLen EXCEPT ![w] = Len(acc)]
         /\ DuoApplyCall(w, <<acc>>, duoBusy[w], doc, docVersion, inflight)

DuoRest ==
    /\ UNCHANGED <<cpAct, opVars, sessionVars, histVars, msgVars, sseVars>>
    /\ UNCHANGED <<fnVars, contVars, envVars, regionVars, reqVars, gcsVars>>

\* handleUserMessage, code-edit intent with a selection: checkpoint, range
\* updater, streaming call
DuoBeginChat(selStart, selEnd) ==
    /\ duoPc["chat"] = "idle"
    /\ selStart \in 0..Len(doc) /\ selEnd \in (selStart + 1)..Len(doc)
    /\ checkpointCounter' = NextId(checkpointCounter)
    /\ checkpoints' = {c \in checkpoints : c.id # checkpointCounter'}
                        \cup {[id |-> checkpointCounter', content |-> doc]}
    /\ duoStart' = selStart /\ duoEnd' = selEnd
    /\ duoPc' = [duoPc EXCEPT !["chat"] = "streaming"]
    /\ UNCHANGED <<doc, docVersion, inflight, duoAccumulated, duoPending, duoLastLen,
                   duoBusy, landed>>
    /\ UNCHANGED <<cpAct, opVars, sessionVars, msgVars, sseVars>>
    /\ minted' = Append(minted, checkpointCounter')
    /\ UNCHANGED <<fnVars, contVars, envVars, regionVars, reqVars, gcsVars>>

\* prompt2code.generateCode: the placeholder edit
DuoBeginCommand(from, to) ==
    /\ duoPc["command"] = "idle"
    /\ from \in 0..Len(doc) /\ to \in (from + 1)..Len(doc)
    /\ inflight' = Append(inflight,
                          Edit(<<"placeholder", "command">>, from, to, Placeholder, docVersion))
    /\ duoPc' = [duoPc EXCEPT !["command"] = "placeholder"]
    /\ UNCHANGED <<doc, docVersion, checkpoints, checkpointCounter, duoAccumulated,
                   duoPending, duoLastLen, duoBusy, duoStart, duoEnd, landed>>
    /\ DuoRest

\* the placeholder edit settles; a throw ends the command
DuoPlaceholderDone(i, outcome) ==
    /\ duoPc["command"] = "placeholder"
    /\ i \in 1..Len(inflight)
    /\ inflight[i].owner = <<"placeholder", "command">>
    /\ CanSettle(inflight[i], outcome)
    /\ doc' = DocAfter(inflight[i], outcome)
    /\ docVersion' = VersionAfter(outcome)
    /\ inflight' = RemoveAt(inflight, i)
    /\ landed' = IF outcome = "ok" THEN Append(landed, "command") ELSE landed
    /\ duoPc' = [duoPc EXCEPT
                   !["command"] = IF outcome = "throw" THEN "failed" ELSE "streaming"]
    /\ UNCHANGED <<checkpoints, checkpointCounter, duoAccumulated, duoPending,
                   duoLastLen, duoBusy, duoStart, duoEnd>>
    /\ DuoRest

\* a content delta of the reply of operation w
DuoStreamData(w, n) ==
    /\ duoPc[w] = "streaming"
    /\ Len(duoAccumulated[w]) + n <= MaxAccumDuo
    /\ duoAccumulated' =
         [duoAccumulated EXCEPT ![w] = @ \o Repeat(StreamChar(w), n)]
    /\ UNCHANGED <<duoStart, duoEnd>>
    /\ DuoOnChunk(w, duoAccumulated'[w])
    /\ UNCHANGED <<doc, docVersion, checkpoints, checkpointCounter, duoPc, landed>>
    /\ DuoRest

\* the reply of operation w ends: onChunk(cleaned), then flush
DuoStreamEnd(w) ==
    /\ duoPc[w] = "streaming"
    /\ ~looksIncomplete(cleanResponse(duoAccumulated[w]), <<"j", "s">>)
    /\ UNCHANGED <<duoStart, duoEnd>>
    /\ DuoOnChunk(w, cleanResponse(duoAccumulated[w]))
    /\ duoPc' = [duoPc EXCEPT ![w] = "flush"]
    /\ UNCHANGED <<doc, docVersion, checkpoints, checkpointCounter, duoAccumulated, landed>>
    /\ DuoRest

\* the request of operation w fails
DuoStreamError(w) ==
    /\ duoPc[w] = "streaming"
    /\ duoPc' = [duoPc EXCEPT ![w] = "failed"]
    /\ UNCHANGED <<docVars, duoAccumulated, duoPending, duoLastLen, duoBusy, duoStart,
                   duoEnd, landed>>
    /\ UNCHANGED <<opVars, sessionVars, histVars, msgVars, sseVars>>
    /\ UNCHANGED <<fnVars, contVars, envVars, regionVars, reqVars, gcsVars>>

\* the edit of apply / applyPending of operation w settles: currentEnd follows
\* an applied edit of the range updater, busy is cleared, apply runs again on
\* a filled slot
DuoApplyDone(w, i, outcome) ==
    /\ i \in 1..Len(inflight)
    /\ inflight[i].owner = <<"apply", w>>
    /\ CanSettle(inflight[i], outcome)
    /\ doc' = DocAfter(inflight[i], outcome)
    /\ docVersion' = VersionAfter(outcome)
    /\ landed' = IF outcome = "ok" THEN Append(landed, w) ELSE landed
    /\ duoEnd' = IF w = "chat" /\ outcome = "ok"
                 THEN duoStart + Len(inflight[i].text) ELSE duoEnd
    /\ UNCHANGED duoStart
    /\ DuoApplyCall(w, duoPending[w], FALSE, doc', docVersion', RemoveAt(inflight, i))
    /\ UNCHANGED <<checkpoints, checkpointCounter, duoPc, duoAccumulated, duoLastLen>>
    /\ DuoRest

\* flush of operation w: while (busy) { await 80 ms }
DuoFlushResolve(w) ==
    /\ duoPc[w] = "flush"
    /\ ~duoBusy[w]
    /\ duoPc' = [duoPc EXCEPT ![w] = "flushed"]
    /\ UNCHANGED <<docVars, duoAccumulated, duoPending, duoLastLen, duoBusy, duoStart,
                   duoEnd, landed>>
    /\ UNCHANGED <<opVars, sessionVars, histVars, msgVars, sseVars>>
    /\ UNCHANGED <<fnVars, contVars, envVars, regionVars, reqVars, gcsVars>>

DuoInit ==
    /\ duoPc = [w \in Writers |-> "idle"]
    /\ duoAccumulated = [w \in Writers |-> <<>>]
    /\ duoPending = [w \in Writers |-> <<>>]
    /\ duoLastLen = [w \in Writers |-> 0]
    /\ duoBusy = [w \in Writers |-> FALSE]
    /\ duoStart = 0 /\ duoEnd = 0 /\ landed = <<>>

InitDuo ==
    /\ MainInit /\ FnIdle /\ ContIdle /\ RegionIdle /\ ReqIdle /\ GcsIdle
    /\ HistIdle /\ DuoInit /\ MsgIdle /\ SseIdle

DuoNext ==
    \/ \E selStart, selEnd \in 0..MaxAccum : DuoBeginChat(selStart, selEnd)
    \/ \E from, to \in 0..MaxAccum : DuoBeginCommand(from, to)
    \/ \E i \in 1..Len(inflight), outcome \in Outcomes : DuoPlaceholderDone(i, outcome)
    \/ \E w \in Writers, n \in 1..MaxDelta : DuoStreamData(w, n)
    \/ \E w \in Writers : DuoStreamEnd(w)
    \/ \E w \in Writers : DuoStreamError(w)
    \/ \E w \in Writers, i \in 1..Len(inflight), outcome \in Outcomes :
          DuoApplyDone(w, i, outcome)
    \/ \E w \in Writers : DuoFlushResolve(w)

SpecDuo == InitDuo /\ [][DuoNext]_vars

-----------------------------------------------------------------------------
(* The chat messages of the webview: handleUserMessage with its three mode *)
(* handlers, handleImageToCode, executePlan and setMode.  One message is   *)
(* followed at a time; setMode messages are taken at every await of it.    *)
(* A handler body is a run of awaited calls, each of which resolves or     *)
(* rejects, left by its end, by a return or by a throw.                    *)

\* most messages and most setMode messages of one behaviour, and most awaited
\* calls of one handler body
MaxMessages == 2

MaxModeMsgs == 2

MaxAwaits == 2

Modes == {"ask", "plan", "agent"}

\* a handler whose early returns leave without the finally block
RunsFinallyUnlessReturn(exit) == exit # "return"

\* try { ... } catch { post error } finally { post loading false }
RunsFinally(exit) == TRUE

\* what a handler posts on its way out
PostsOnExit(exit) ==
    (IF exit = "throw" THEN <<"error">>
     ELSE IF exit = "end" THEN <<"assistantMessage">> ELSE <<>>)
    \o (IF RunsFinally(exit) THEN <<"loadingOff">> ELSE <<>>)

\* switch (this.currentMode)
RouteByMode(m) == IF m \in {"ask", "plan"} THEN m ELSE "agent"

\* the handler a message is routed to once the gate is passed: the mode is
\* read at the switch
Route(entry, m) ==
    IF entry = "sendImageMessage" THEN "image" ELSE RouteByMode(m)

MsgFrame ==
    /\ UNCHANGED <<fnVars, contVars, mainVars, envVars, regionVars, reqVars, gcsVars>>
    /\ UNCHANGED <<histVars, duoVars, sseVars>>

\* 'sendMessage' and 'sendImageMessage': the handler starts with the auth gate
SendMessage(entry) ==
    /\ hPc = "idle"
    /\ handled < MaxMessages
    /\ entry \in {"sendMessage", "sendImageMessage"}
    /\ handled' = handled + 1
    /\ hEntry' = entry
    /\ hPc' = "gate"
    /\ hHandler' = "none" /\ hAwaits' = 0 /\ hResult' = "none"
    /\ UNCHANGED <<currentMode, previousMode, posted, modeMsgs>>
    /\ MsgFrame

\* 'executePlan': the mode is saved and set to agent, handleUserMessage called
ExecutePlan ==
    /\ hPc = "idle"
    /\ handled < MaxMessages
    /\ handled' = handled + 1
    /\ hEntry' = "executePlan"
    /\ previousMode' = currentMode
    /\ currentMode' = "agent"
    /\ hPc' = "gate"
    /\ hHandler' = "none" /\ hAwaits' = 0 /\ hResult' = "none"
    /\ UNCHANGED <<posted, modeMsgs>>
    /\ MsgFrame

\* how the entry point ends, and what executePlan does once handleUserMessage
\* has returned: this.currentMode = previousMode
ModeAfter(entry, how) ==
    IF entry = "executePlan" /\ how = "returned" THEN previousMode ELSE currentMode

\* await this.authProvider.isAuthenticated() settles: not signed in (error
\* posted, return), rejected (the message handler throws), or signed in: the
\* user message is posted, the handler chosen and loading posted
AuthGate(outcome) ==
    /\ hPc = "gate"
    /\ outcome \in {"signedIn", "signedOut", "reject"}
    /\ IF outcome = "signedIn"
       THEN /\ hHandler' = Route(hEntry, currentMode)
            /\ posted' = posted \o <<"userMessage", "loadingOn">>
            /\ hPc' = "try"
            /\ UNCHANGED <<hEntry, hResult, currentMode>>
       ELSE /\ hResult' = IF outcome = "reject" THEN "thrown" ELSE "returned"
            /\ posted' = IF outcome = "signedOut" THEN Append(posted, "error") ELSE posted
            /\ currentMode' = ModeAfter(hEntry, hResult')
            /\ hPc' = "idle"
            /\ hEntry' = "none"
            /\ UNCHANGED hHandler
    /\ UNCHANGED <<hAwaits, previousMode, handled, modeMsgs>>
    /\ MsgFrame

\* an awaited call of the handler body resolves
HandlerAwait ==
    /\ hPc = "try"
    /\ hAwaits < MaxAwaits
    /\ hAwaits' = hAwaits + 1
    /\ UNCHANGED <<currentMode, hPc, hEntry, hHandler, previousMode, hResult, posted,
                   handled, modeMsgs>>
    /\ MsgFrame

\* the exits a handler body has: a throw anywhere (no API key, a rejected
\* call), the end after its awaited calls, a return (agent and image handlers)
CanExit(handler, awaits, exit) ==
    \/ exit = "throw"
    \/ exit = "end" /\ awaits >= 1
    \/ exit = "return" /\ handler \in {"agent", "image"}

\* the handler body is left; catch and finally run, the handler returns, and
\* so does handleUserMessage
HandlerLeaves(exit) ==
    /\ hPc = "try"
    /\ CanExit(hHandler, hAwaits, exit)
    /\ posted' = posted \o PostsOnExit(exit)
    /\ hResult' = "returned"
    /\ currentMode' = ModeAfter(hEntry, hResult')
    /\ hPc' = "idle"
    /\ hEntry' = "none"
    /\ UNCHANGED <<hHandler, hAwaits, previousMode, handled, modeMsgs>>
    /\ MsgFrame

\* 'setMode', handled while the running message awaits or between messages
SetMode(m) ==
    /\ modeMsgs < MaxModeMsgs
    /\ m \in Modes
    /\ modeMsgs' = modeMsgs + 1
    /\ currentMode' = m
    /\ posted' = Append(posted, "modeChanged")
    /\ UNCHANGED <<hPc, hEntry, hHandler, hAwaits, previousMode, hResult, handled>>
    /\ MsgFrame

MsgInit ==
    /\ currentMode = "agent" /\ hPc = "idle" /\ hEntry = "none" /\ hHandler = "none"
    /\ hAwaits = 0 /\ previousMode = "agent" /\ hResult = "none" /\ posted = <<>>
    /\ handled = 0 /\ modeMsgs = 0

InitMsg ==
    /\ MsgInit /\ FnIdle /\ ContIdle /\ MainIdle /\ RegionIdle /\ ReqIdle /\ GcsIdle
    /\ HistIdle /\ DuoIdle /\ SseIdle

\* the steps of the running message
MsgSettles ==
    \/ \E outcome \in {"signedIn", "signedOut", "reject"} : AuthGate(outcome)
    \/ HandlerAwait
    \/ \E exit \in {"end", "return", "throw"} : HandlerLeaves(exit)

MsgNext ==
    \/ \E entry \in {"sendMessage", "sendImageMessage"} : SendMessage(entry)
    \/ ExecutePlan
    \/ MsgSettles
    \/ \E m \in Modes : SetMode(m)

SpecMsg == InitMsg /\ [][MsgNext]_vars

\* every awaited call settles
SpecMsgFair == SpecMsg /\ WF_vars(MsgSettles)

-----------------------------------------------------------------------------
(* The SSE parser of generateCodeStreaming and generateSectionEdit: the    *)
(* response body arrives as Buffer chunks cut anywhere.  A byte of the     *)
(* model is a one-character string for an ASCII character, and "e1", "e2"  *)
(* for the two bytes of the one two-byte character of the model, "e'".     *)
(* The JSON object of a data line is written as its content string alone:  *)
(* data: "<content>".                                                      *)

\* most data lines with a delta in one stream
MaxEvents == 2

TwoByteChar == "e'"

\* U+FFFD, what toString() puts for a byte sequence that is not a character
Replacement == "?"

\* the UTF-8 bytes of a character
Utf8(ch) == IF ch = TwoByteChar THEN <<"e1", "e2">> ELSE <<ch>>

RECURSIVE Encode(_)
Encode(text) ==
    IF text = <<>> THEN <<>> ELSE Utf8(Head(text)) \o Encode(Tail(text))

\* chunk.toString(): each chunk is decoded on its own
RECURSIVE toString(_, _)
toString(bytes, i) ==
    IF i > Len(bytes) THEN <<>>
    ELSE IF bytes[i] = "e1"
         THEN IF i < Len(bytes) /\ bytes[i + 1] = "e2"
              THEN <<TwoByteChar>> \o toString(bytes, i + 2)
              ELSE <<Replacement>> \o toString(bytes, i + 1)
    ELSE IF bytes[i] = "e2" THEN <<Replacement>> \o toString(bytes, i + 1)
    ELSE <<bytes[i]>> \o toString(bytes, i + 1)

\* buffer.split('\n')
RECURSIVE Split(_, _)
Split(text, line) ==
    IF text = <<>> THEN <<line>>
    ELSE IF Head(text) = "\n" THEN <<line>> \o Split(Tail(text), <<>>)
    ELSE Split(Tail(text), Append(line, Head(text)))

DataPrefix == <<"d", "a", "t", "a", ":", " ">>

DoneMark == <<"[", "D", "O", "N", "E", "]">>

\* JSON.parse(data) and parsed.choices?.[0]?.delta?.content: <<content>>, or
\* <<>> when the parse throws
ParseDelta(data) ==
    IF /\ Len(data) >= 2
       /\ data[1] = "\"" /\ data[Len(data)] = "\""
       /\ \A k \in 2..(Len(data) - 1) : data[k] # "\""
    THEN <<SubSeq(data, 2, Len(data) - 1)>>
    ELSE <<>>

\* the delta one line adds: none for a line that is blank, is no data line,
\* is the [DONE] mark or does not parse
LineDelta(line) ==
    LET trimmed == Trim(line)
    IN  IF trimmed = <<>> \/ ~StartsWith(trimmed, DataPrefix) THEN <<>>
        ELSE LET data == SliceFrom(trimmed, Len(DataPrefix))
             IN  IF data = DoneMark \/ ParseDelta(data) = <<>> THEN <<>>
                 ELSE ParseDelta(data)[1]

\* for (const line of lines): the texts handed to onChunk, starting from acc
RECURSIVE Chunks(_, _)
Chunks(lns, acc) ==
    IF lns = <<>> THEN <<>>
    ELSE IF LineDelta(Head(lns)) # <<>>
         THEN <<acc \o LineDelta(Head(lns))>>
              \o Chunks(Tail(lns), acc \o LineDelta(Head(lns)))
    ELSE Chunks(Tail(lns), acc)

\* the body of a stream: its data lines, each followed by a blank line, and
\* the [DONE] line
RECURSIVE Body(_)
Body(evs) ==
    IF evs = <<>> THEN DataPrefix \o DoneMark \o <<"\n", "\n">>
    ELSE DataPrefix \o <<"\"">> \o Head(evs) \o <<"\"", "\n", "\n">> \o Body(Tail(evs))

\* the deltas of the model
EventContents == {<<"a">>, <<TwoByteChar>>, <<"a", TwoByteChar>>}

EventLists ==
    UNION {[1..n -> EventContents] : n \in 1..MaxEvents}

RECURSIVE Flatten(_)
Flatten(evs) == IF evs = <<>> THEN <<>> ELSE Head(evs) \o Flatten(Tail(evs))

SseFrame ==
    /\ UNCHANGED <<fnVars, contVars, mainVars, envVars, regionVars, reqVars, gcsVars>>
    /\ UNCHANGED <<histVars, duoVars, msgVars>>

SseInit ==
    /\ ssePc = "streaming"
    /\ events \in EventLists
    /\ wire = Encode(Body(events))
    /\ sent = 0
    /\ sseBuffer = <<>> /\ sseAccumulated = <<>> /\ delivered = <<>>

\* res.on('data'): the next n bytes arrive as one chunk
SseData(n) ==
    /\ ssePc = "streaming"
    /\ n \in 1..(Len(wire) - sent)
    /\ LET chunk == SubSeq(wire, sent + 1, sent + n)
           lns == Split(sseBuffer \o toString(chunk, 1), <<>>)
           complete == SubSeq(lns, 1, Len(lns) - 1)
           texts == Chunks(complete, sseAccumulated)
       IN  /\ sseBuffer' = lns[Len(lns)]
           /\ delivered' = delivered \o texts
           /\ sseAccumulated' =
                IF texts = <<>> THEN sseAccumulated ELSE texts[Len(texts)]
    /\ sent' = sent + n
    /\ UNCHANGED <<ssePc, events, wire>>
    /\ SseFrame

\* res.on('end') => resolve()
SseEnd ==
    /\ ssePc = "streaming"
    /\ sent = Len(wire)
    /\ ssePc' = "ended"
    /\ UNCHANGED <<events, wire, sent, sseBuffer, sseAccumulated, delivered>>
    /\ SseFrame

InitSse ==
    /\ SseInit /\ FnIdle /\ ContIdle /\ MainIdle /\ RegionIdle /\ ReqIdle /\ GcsIdle
    /\ HistIdle /\ DuoIdle /\ MsgIdle

SseNext ==
    \/ \E n \in 1..Len(wire) : SseData(n)
    \/ SseEnd

SpecSse == InitSse /\ [][SseNext]_vars

-----------------------------------------------------------------------------
(* The target region of a chat edit: findRelevantSection and the strategy  *)
(* chosen by handleUserMessage (src/src/chatViewProvider.ts).  A file is a *)
(* sequence of lines, a line a text without line break.  The instruction   *)
(* of the model is made of letters and blanks, so that the identifiers     *)
(* matched by /\b[a-z_$][a-z0-9_$]*\b/gi are its blank-separated words.    *)

Letters ==
    {"a", "b", "c", "d", "e", "f", "g", "h", "i", "j", "k", "l", "m", "n", "o", "p", "q",
     "r", "s", "t", "u", "v", "w", "x", "y", "z"}

Digits == {"0", "1", "2", "3", "4", "5", "6", "7", "8", "9"}

\* \w
WordChar(c) == LowerChar(c) \in Letters \/ c \in Digits \/ c = "_"

\* the words of a text of letters and blanks, in order
RECURSIVE WordsFrom(_, _, _)
WordsFrom(s, i, word) ==
    IF i > Len(s) THEN (IF word = <<>> THEN <<>> ELSE <<word>>)
    ELSE IF s[i] = " "
         THEN (IF word = <<>> THEN <<>> ELSE <<word>>) \o WordsFrom(s, i + 1, <<>>)
         ELSE WordsFrom(s, i + 1, Append(word, s[i]))

Words(s) == WordsFrom(s, 1, <<>>)

stopWords ==
    {
      <<"t", "h", "e">>, <<"a">>, <<"a", "n">>, <<"i", "s">>, <<"i", "t">>, <<"t", "o">>,
      <<"i", "n">>, <<"o", "n">>, <<"o", "f">>, <<"f", "o", "r">>, <<"a", "n", "d">>,
      <<"o", "r">>, <<"t", "h", "i", "s">>, <<"t", "h", "a", "t">>, <<"a", "d", "d">>,
      <<"c", "h", "a", "n", "g", "e">>, <<"u", "p", "d", "a", "t", "e">>,
      <<"m", "o", "d", "i", "f", "y">>, <<"r", "e", "m", "o", "v", "e">>, <<"f", "i", "x">>,
      <<"m", "a", "k", "e">>, <<"n", "e", "w">>, <<"w", "i", "t", "h">>,
      <<"f", "r", "o", "m">>, <<"i", "n", "t", "o">>, <<"c", "a", "n">>,
      <<"s", "h", "o", "u", "l", "d">>, <<"n", "o", "t">>, <<"d", "o", "n", "t">>,
      <<"p", "l", "e", "a", "s", "e">>, <<"c", "r", "e", "a", "t", "e">>, <<"u", "s", "e">>,
      <<"u", "s", "i", "n", "g">>, <<"w", "a", "n", "t">>, <<"n", "e", "e", "d">>,
      <<"c", "o", "d", "e">>, <<"f", "u", "n", "c", "t", "i", "o", "n">>,
      <<"c", "l", "a", "s", "s">>, <<"m", "e", "t", "h", "o", "d">>,
      <<"s", "t", "y", "l", "e">>, <<"c", "o", "l", "o", "r">>, <<"t", "e", "x", "t">>,
      <<"b", "a", "c", "k", "g", "r", "o", "u", "n", "d">>, <<"c", "s", "s">>,
      <<"h", "t", "m", "l">>, <<"j", "a", "v", "a", "s", "c", "r", "i", "p", "t">>,
      <<"t", "y", "p", "e", "s", "c", "r", "i", "p", "t">>, <<"r", "e", "a", "c", "t">>,
      <<"c", "o", "m", "p", "o", "n", "e", "n", "t">>, <<"b", "u", "t", "t", "o", "n">>,
      <<"i", "n", "p", "u", "t">>, <<"f", "o", "r", "m">>, <<"d", "i", "v">>,
      <<"s", "e", "c", "t", "i", "o", "n">>, <<"h", "e", "a", "d", "e", "r">>,
      <<"f", "o", "o", "t", "e", "r">>, <<"n", "a", "v">>,
      <<"s", "i", "d", "e", "b", "a", "r">>, <<"m", "o", "d", "a", "l">>,
      <<"d", "r", "o", "p", "d", "o", "w", "n">>
    }

\* identifiers.filter(w => !stopWords.has(w.toLowerCase()) && w.length > 2)
keywords(lower) ==
    SelectSeq(Words(lower), LAMBDA w : ToLowerCase(w) \notin stopWords /\ Len(w) > 2)

\* the section names looked for in the instruction: /\bname\b/i, and
\* /\bnav(bar|igation)?\b/i for nav
SectionNames ==
    <<
      <<"n", "a", "v">>, <<"h", "e", "a", "d", "e", "r">>, <<"f", "o", "o", "t", "e", "r">>,
      <<"s", "i", "d", "e", "b", "a", "r">>, <<"m", "o", "d", "a", "l">>,
      <<"h", "e", "r", "o">>, <<"c", "a", "r", "d">>, <<"t", "a", "b", "l", "e">>,
      <<"f", "o", "r", "m">>
    >>

NavForms == {<<"n", "a", "v">>, <<"n", "a", "v", "b", "a", "r">>, <<"n", "a", "v", "i", "g", "a", "t", "i", "o", "n">>}

NamedIn(name, lower) ==
    \E k \in 1..Len(Words(lower)) :
        \/ Words(lower)[k] = name
        \/ name = <<"n", "a", "v">> /\ Words(lower)[k] \in NavForms

sectionPatterns(lower) == SelectSeq(SectionNames, LAMBDA name : NamedIn(name, lower))

\* /\bname/i .test(line)
PatternTest(name, line) ==
    \E i \in 1..Len(line) :
        /\ i + Len(name) - 1 <= Len(line)
        /\ ToLowerCase(SubSeq(line, i, i + Len(name) - 1)) = name
        /\ i > 1 => ~WordChar(line[i - 1])

\* the score of one line: 2 for every keyword it includes, 3 for every pattern
KeywordScore == 2

PatternScore == 3

lineScore(line, kws, pats) ==
    KeywordScore * Cardinality({k \in 1..Len(kws) :
                        Contains(ToLowerCase(line), ToLowerCase(kws[k]))})
    + PatternScore * Cardinality({k \in 1..Len(pats) : PatternTest(pats[k], line)})

\* the scoring loop: bestScore is the highest score of a line and bestStart the
\* first line that has it (a later line takes over only with a higher score),
\* -1 when every score is 0; lines are numbered from 0
ScoreLoop(lns, kws, pats) ==
    LET score == [k \in 1..Len(lns) |-> lineScore(lns[k], kws, pats)]
        bestScore == IF lns = <<>> THEN 0
                     ELSE CHOOSE m \in {score[k] : k \in 1..Len(lns)} :
                              \A k \in 1..Len(lns) : score[k] <= m
    IN  IF bestScore = 0 THEN <<-1, 0>>
        ELSE <<(CHOOSE k \in 1..Len(lns) :
                    score[k] = bestScore /\ \A j \in 1..(k - 1) : score[j] < bestScore) - 1,
               bestScore>>

Best(lns, instr) ==
    ScoreLoop(lns, keywords(ToLowerCase(instr)), sectionPatterns(ToLowerCase(instr)))

\* if (bestStart < 0 || bestScore < 2) return null
MinScore == 2

\* (line.match(/[{}]/g) || []).reduce(...): +1 for '}', -1 for '{'
BackwardDelta(line) == Count(line, {"}"}) - Count(line, {"{"})

\* the literal openers of the block-start test
BlockStarts ==
    {
      <<"f", "u", "n", "c", "t", "i", "o", "n">>, <<"c", "l", "a", "s", "s">>,
      <<"c", "o", "n", "s", "t">>, <<"l", "e", "t">>, <<"v", "a", "r">>,
      <<"e", "x", "p", "o", "r", "t">>, <<"i", "m", "p", "o", "r", "t">>, <<"/", "*">>,
      <<"/", "/">>, <<"@", "m", "e", "d", "i", "a">>,
      <<"@", "k", "e", "y", "f", "r", "a", "m", "e", "s">>
    }

\* /^\s*(function|class|const|let|var|export|import|<\w|\/\*|\/\/|\.[\w-]+\s*\{|
\*      #[\w-]+|@media|@keyframes)/ on a trimmed line
RECURSIVE SkipNameChars(_, _)
SkipNameChars(t, i) ==
    IF i <= Len(t) /\ (WordChar(t[i]) \/ t[i] = "-") THEN SkipNameChars(t, i + 1) ELSE i

RECURSIVE SkipSpaces(_, _)
SkipSpaces(t, i) ==
    IF i <= Len(t) /\ t[i] \in WhiteSpace THEN SkipSpaces(t, i + 1) ELSE i

BlockStartTest(t) ==
    \/ \E p \in BlockStarts : StartsWith(t, p)
    \/ Len(t) >= 2 /\ t[1] = "<" /\ WordChar(t[2])
    \/ Len(t) >= 2 /\ t[1] = "#" /\ (WordChar(t[2]) \/ t[2] = "-")
    \/ /\ Len(t) >= 3 /\ t[1] = "."
       /\ \E j \in 3..SkipNameChars(t, 2) :
             LET k == SkipSpaces(t, j) IN k <= Len(t) /\ t[k] = "{"

IsBlockStart(line) == BlockStartTest(Trim(line)) \/ Trim(line) = <<>>

\* the iterations i = hi, hi - 1, ..., lo of the backward walk, run by halves;
\* w holds start, depth and whether the walk has left the loop
RECURSIVE BackwardRun(_, _, _, _, _)
BackwardRun(lns, bestStart, w, hi, lo) ==
    IF hi < lo \/ w.done THEN w
    ELSE IF hi = lo
    THEN LET d == w.depth + BackwardDelta(lns[hi + 1])
         IN  [start |-> hi, depth |-> d,
              done |-> d <= 0 /\ hi < bestStart /\ IsBlockStart(lns[hi + 1])]
    ELSE LET mid == (hi + lo) \div 2
             upper == BackwardRun(lns, bestStart, w, hi, mid + 1)
         IN  IF upper.done THEN upper
             ELSE BackwardRun(lns, bestStart, upper, mid, lo)

\* walk backward from the anchor to the start of the block
BackwardLoop(lns, bestStart, i, depth) ==
    BackwardRun(lns, bestStart,
                [start |-> bestStart, depth |-> depth, done |-> FALSE], i, 0).start

\* the change of depth over one line of the forward walk
ForwardDelta(line) == Count(line, {"{", "(", "<"}) - Count(line, {"}", ")", ">"})

\* cap of the forward walk: if (i - start > 60) break
MaxSectionSpan == 60

\* a forward walk that is never cut short
SpanCapNever(i, start) == FALSE

\* if (i - start > 60) { break; }
SpanCap(i, start) == i - start > MaxSectionSpan

\* the iterations i = lo, lo + 1, ..., hi of the forward walk, run by halves;
\* w holds end, depth and whether the walk has left the loop
RECURSIVE ForwardRun(_, _, _, _, _, _)
ForwardRun(lns, start, bestStart, w, lo, hi) ==
    IF hi < lo \/ w.done THEN w
    ELSE IF hi = lo
    THEN LET d == w.depth + ForwardDelta(lns[lo + 1])
         IN  [end |-> lo, depth |-> d,
              done |-> (d <= 0 /\ lo > bestStart) \/ SpanCap(lo, start)]
    ELSE LET mid == (hi + lo) \div 2
             lower == ForwardRun(lns, start, bestStart, w, lo, mid)
         IN  IF lower.done THEN lower
             ELSE ForwardRun(lns, start, bestStart, lower, mid + 1, hi)

\* walk forward from the start of the block to its end
ForwardLoop(lns, start, bestStart, i, depth) ==
    ForwardRun(lns, start, bestStart,
               [end |-> bestStart, depth |-> depth, done |-> FALSE],
               i, Len(lns) - 1).end

\* if (end - start < 3) { start = max(0, bestStart - 5); end = min(last, bestStart + 15) }
MinSectionSpan == 3

ContextBefore == 5

ContextAfter == 15

NoRange == <<>>

findRelevantSection(lns, instr) ==
    LET best == Best(lns, instr)
        bestStart == best[1]
        start == BackwardLoop(lns, bestStart, bestStart, 0)
        end == ForwardLoop(lns, start, bestStart, start, 0)
    IN  IF bestStart < 0 \/ best[2] < MinScore THEN NoRange
        ELSE IF end - start < MinSectionSpan
             THEN <<[start |-> Max(0, bestStart - ContextBefore),
                     end |-> Min(Len(lns) - 1, bestStart + ContextAfter)]>>
             ELSE <<[start |-> start, end |-> end]>>

\* doc.offsetAt of the start of line k (0-based) and of its end: the lines
\* before it and their line breaks (summed by halves)
RECURSIVE LengthOfLines(_, _, _)
LengthOfLines(lns, a, b) ==
    IF a > b THEN 0
    ELSE IF a = b THEN Len(lns[a]) + 1
    ELSE LET mid == (a + b) \div 2
         IN  LengthOfLines(lns, a, mid) + LengthOfLines(lns, mid + 1, b)

LineStart(lns, k) == LengthOfLines(lns, 1, k)

LineEnd(lns, k) == LineStart(lns, k) + Len(lns[k + 1])

\* doc.getText().length
TextLength(lns) == IF lns = <<>> THEN 0 ELSE LineEnd(lns, Len(lns) - 1)

\* else if (fileLineCount > 80)
LargeFile == 80

IsLargeFileInclusive(lineCount) == lineCount >= LargeFile

IsLargeFile(lineCount) == lineCount > LargeFile

\* the strategy of the code-edit branch: the mode, and the range of offsets the
\* updater and the final write are given.  sel is <<anchor offset, active offset>>
\* in document order.
chooseRegion(lns, sel, instr) ==
    IF sel[1] # sel[2]
    THEN [mode |-> "selection", from |-> sel[1], to |-> sel[2]]
    ELSE IF IsLargeFile(Len(lns)) /\ findRelevantSection(lns, instr) # NoRange
    THEN LET r == findRelevantSection(lns, instr)[1]
         IN  [mode |-> "section", from |-> LineStart(lns, r.start), to |-> LineEnd(lns, r.end)]
    ELSE [mode |-> "whole", from |-> 0, to |-> TextLength(lns)]

\* the lines the files of the model are made of
Plain == <<"x", "(", ")", ";">>

Blank == <<>>

LetOpen == <<"l", "e", "t", " ", "f", " ", "=", " ", "{">>

Close == <<"}">>

FooterLine == <<"<", "f", "o", "o", "t", "e", "r", ">">>

FooterUpper == <<"<", "F", "O", "O", "T", "E", "R", ">">>

TotalLine == <<"t", "o", "t", "a", "l", "(", ")", ";">>

Lines(line, n) == [i \in 1..n |-> line]

\* longest run of plain lines between the head of a block and the anchor; the
\* runs of the model go up to the cap of the forward walk and one or two beyond
MaxBody == MaxSectionSpan + 2

Bodies == {0, 1, MaxSectionSpan - 1, MaxSectionSpan, MaxSectionSpan + 1, MaxBody}

\* the line counts of the files, around the threshold of 80 lines
LineCounts == {LargeFile - 1, LargeFile, LargeFile + 1, LargeFile + 10}

\* largest number of plain lines before the block and after the anchor
MaxTop == 2

MaxAfter == 2

\* a file: top plain lines, a head, body plain lines, the anchor, after plain
\* lines, a closing brace, and plain lines up to total lines
File(top, head, body, anchor, after, total) ==
    LET core == Lines(Plain, top) \o <<head>> \o Lines(Plain, body) \o <<anchor>>
                   \o Lines(Plain, after) \o <<Close>>
    IN  core \o Lines(Plain, Max(0, total - Len(core)))

Files ==
    { File(top, head, body, anchor, after, total) :
        top \in {0, MaxTop}, head \in {Blank, LetOpen, Plain}, body \in Bodies,
        anchor \in {FooterLine, FooterUpper, TotalLine, Plain},
        after \in {0, MaxAfter}, total \in LineCounts }

Instructions ==
    { <<"f", "i", "x", " ", "t", "h", "e", " ", "f", "o", "o", "t", "e", "r">>,
      <<"f", "i", "x", " ", "t", "o", "t", "a", "l">>,
      <<"f", "i", "x", " ", "i", "t">> }

Selections == {<<0, 0>>, <<1, 3>>}

RegionInit ==
    /\ regionPc = "args"
    /\ lines \in Files
    /\ instruction \in Instructions
    /\ selection \in Selections
    /\ target = <<>>

RegionCall ==
    /\ regionPc = "args"
    /\ target' = <<chooseRegion(lines, selection, instruction)>>
    /\ regionPc' = "done"
    /\ UNCHANGED <<lines, instruction, selection>>
    /\ UNCHANGED <<fnVars, contVars, mainVars, envVars, reqVars, gcsVars, extVars>>

InitRegion == RegionInit /\ FnIdle /\ ContIdle /\ MainIdle /\ ReqIdle /\ GcsIdle /\ ExtIdle

SpecRegion == InitRegion /\ [][RegionCall]_vars

-----------------------------------------------------------------------------
(* requestCompletion (src/src/groqClient.ts): one non-streaming call of    *)
(* the API with its retries.                                               *)

\* const MAX_RETRIES = 3
MAX_RETRIES == 3

\* let backoffMs = 500 * Math.pow(2, attempt)
BackoffBase == 500

\* how one axios.post ends: a reply with its content (<<>> when
\* choices[0].message.content is missing or empty), an HTTP error status
\* ("http"), or an error without response ("network") with its code.
\* retryAfter is the number in the retry-after header (Number(header)), 0 when
\* the header is missing or is not a number.
Reply(content) ==
    [kind |-> "reply", content |-> content, status |-> 0, code |-> Null,
     retryAfter |-> 0]

HttpError(status, retryAfter) ==
    [kind |-> "http", content |-> <<>>, status |-> status, code |-> Null,
     retryAfter |-> retryAfter]

NetworkError(errno) ==
    [kind |-> "network", content |-> <<>>, status |-> 0, code |-> errno,
     retryAfter |-> 0]

TransientCodes == {"ENOTFOUND", "ECONNRESET", "ETIMEDOUT", "EAI_AGAIN"}

\* the retry-after headers of the model, in seconds
RetryAfters == {-1, 0, 1, 3}

\* the contents of the replies of the model
ReplyContents == {<<>>, <<" ", "\n">>, <<"a">>, <<" ", "a">>}

HttpOutcomes ==
    {Reply(content) : content \in ReplyContents}
    \cup {HttpError(status, 0) : status \in {401, 403, 500}}
    \cup {HttpError(429, ra) : ra \in RetryAfters}
    \cup {NetworkError(errno) : errno \in TransientCodes \cup {"ECONNREFUSED"}}

\* a test that does not trim
isEmptyContentNoTrim(content) == content = <<>>

\* if (!content || !content.trim())
isEmptyContent(content) == content = <<>> \/ Trim(content) = <<>>

\* const isRateLimit = status === 429
isRateLimitOrAuth(o) == o.kind = "http" /\ o.status \in {401, 403, 429}

isRateLimit(o) == o.kind = "http" /\ o.status = 429

\* const isTransientNetwork = !status && (code === 'ENOTFOUND' || ...)
isTransientNetwork(o) == o.kind = "network" /\ o.code \in TransientCodes

\* attempt < MAX_RETRIES
WithinRetriesInclusive(att) == att <= MAX_RETRIES

WithinRetries(att) == att < MAX_RETRIES

canRetry(att, o) == WithinRetries(att) /\ (isRateLimit(o) \/ isTransientNetwork(o))

\* a sleep that does not look at the retry-after header
backoffMsNoFloor(att, o) == BackoffBase * 2 ^ att

\* the sleep before the next attempt
backoffMs(att, o) ==
    LET base == BackoffBase * 2 ^ att
    IN  IF isRateLimit(o) /\ o.retryAfter > 0
        THEN Max(base, o.retryAfter * 1000)
        ELSE base

\* for (let attempt = 0; attempt <= MAX_RETRIES; attempt++)
ReqLoopContinues(att) == att <= MAX_RETRIES

ReqInit ==
    /\ reqPc = "start" /\ apiKey \in BOOLEAN /\ reqAttempt = 0 /\ httpCalls = 0
    /\ responses = <<>> /\ backoffs = <<>> /\ reqError = <<>>

\* entry: without an API key the call throws before any request; otherwise the
\* first request is sent
ReqEnter ==
    /\ reqPc = "start"
    /\ IF ~apiKey
       THEN /\ reqPc' = "thrown"
            /\ reqError' = <<"Missing Groq API key">>
            /\ UNCHANGED httpCalls
       ELSE /\ reqPc' = "awaiting"
            /\ httpCalls' = httpCalls + 1
            /\ UNCHANGED reqError
    /\ UNCHANGED <<apiKey, reqAttempt, responses, backoffs>>
    /\ UNCHANGED <<fnVars, contVars, mainVars, envVars, regionVars, gcsVars, extVars>>

\* axios.post ends: the result is returned, or the error is thrown, or the call
\* sleeps before its next attempt
ReqResponse(o) ==
    /\ reqPc = "awaiting"
    /\ responses' = Append(responses, o)
    /\ IF o.kind = "reply" /\ ~isEmptyContent(o.content)
       THEN /\ reqPc' = "returned"
            /\ UNCHANGED <<backoffs, reqError>>
       ELSE IF o.kind = "reply"
       THEN /\ reqPc' = "thrown"
            /\ reqError' = <<"Groq returned an empty response">>
            /\ UNCHANGED backoffs
       ELSE IF canRetry(reqAttempt, o)
       THEN /\ reqPc' = "sleeping"
            /\ backoffs' = Append(backoffs, backoffMs(reqAttempt, o))
            /\ UNCHANGED reqError
       ELSE /\ reqPc' = "thrown"
            /\ reqError' = <<o>>
            /\ UNCHANGED backoffs
    /\ UNCHANGED <<apiKey, reqAttempt, httpCalls>>
    /\ UNCHANGED <<fnVars, contVars, mainVars, envVars, regionVars, gcsVars, extVars>>

\* the sleep ends: continue, attempt++, and the next request if the loop goes on
ReqWake ==
    /\ reqPc = "sleeping"
    /\ reqAttempt' = reqAttempt + 1
    /\ IF ReqLoopContinues(reqAttempt')
       THEN /\ reqPc' = "awaiting"
            /\ httpCalls' = httpCalls + 1
            /\ UNCHANGED reqError
       ELSE /\ reqPc' = "thrown"
            /\ reqError' = <<"Groq request failed after retries">>
            /\ UNCHANGED httpCalls
    /\ UNCHANGED <<apiKey, responses, backoffs>>
    /\ UNCHANGED <<fnVars, contVars, mainVars, envVars, regionVars, gcsVars, extVars>>

ReqNext ==
    \/ ReqEnter
    \/ \E o \in HttpOutcomes : ReqResponse(o)
    \/ ReqWake

InitReq == ReqInit /\ FnIdle /\ ContIdle /\ MainIdle /\ RegionIdle /\ GcsIdle /\ ExtIdle

SpecReq == InitReq /\ [][ReqNext]_vars

-----------------------------------------------------------------------------
(* generateCodeStreaming: the streamed request, the max_tokens budget and  *)
(* the auto-continuation.                                                  *)

\* Math.max(config.maxTokens ?? 0, 2048)
DesiredOutputFloor == 2048

desiredOutput(configured) == Max(configured, DesiredOutputFloor)

\* modelWindow - inputTokens - 100
SafetyMargin == 100

roomLeft(window, input) == window - input - SafetyMargin

\* Math.max(roomLeft, 1500)
OutputFloor == 1500

\* a budget that is not floored
RoomUnfloored(room) == room

RoomFloored(room) == Max(room, OutputFloor)

\* maxTokens, contMaxTokens
outputBudget(configured, window, input) ==
    Min(desiredOutput(configured), RoomFloored(roomLeft(window, input)))

\* const MAX_CONTINUATIONS = 2
StreamingContinuations == 2

\* the loop test that lets one more round in
ContLoopContinuesInclusive(c) == c <= StreamingContinuations

\* cont < MAX_CONTINUATIONS
ContLoopContinues(c) == c < StreamingContinuations

\* a loop that does not look at the text
AsksAlways(text, lang) == TRUE

\* the loop body is entered, and a continuation is requested, only past
\* `if (!this.looksIncomplete(cleaned, language)) { break; }`
AsksContinuation(text, lang) == looksIncomplete(text, lang)

\* a failed continuation that rejects, as the first request does
ContFailureRejects(how) == how # "end"

\* every handler of the continuation response and request calls resolve()
ContFailureRaises(how) == FALSE

\* the merge after a continuation round
MergeCont(text, contAcc) ==
    IF Trim(contAcc) # <<>>
    THEN appendAvoidingOverlap(text, <<"\n">> \o cleanResponse(contAcc))
    ELSE text

\* config.maxTokens, the model windows and the token estimates of the model
ConfiguredMaxes == {1000, 4096}

ModelWindows == {8000, 128000}

InputEstimates == {500, 9000}

\* the texts of the model: a filler one character short of the length from
\* which looksIncomplete judges, and single characters
Filler == Repeat("x", MinJudgeLen - 1)

FirstDeltas == {Filler, <<"{">>, <<"}">>, <<" ">>}

ContDeltas == {<<"}">>, <<"{">>, <<" ">>}

\* the single characters a first response carries beside the filler, and the
\* longest continuation response
MaxExtra == 2

MaxContLen == 2

\* a first response of the model: at most MaxExtra single characters, and the
\* filler among them or not
InFirstResponses(text) ==
    Len(text) <= MaxExtra + (IF Len(text) >= Len(Filler) THEN Len(Filler) ELSE 0)

GcsLanguages == {<<"j", "s">>, <<"h", "t", "m", "l">>}

GcsInit ==
    /\ gcsPc = "start"
    /\ gcsKey \in BOOLEAN
    /\ gcsLanguage \in GcsLanguages
    /\ configMaxTokens \in ConfiguredMaxes
    /\ modelWindow \in ModelWindows
    /\ inputTokens \in InputEstimates
    /\ maxTokensSent = <<>> /\ gcsAccumulated = <<>> /\ cleaned = <<>>
    /\ cont = 0 /\ contAccumulated = <<>> /\ gcsEnds = <<>>
    /\ emitted = <<>> /\ gcsResult = <<>>

\* the missing-key check, the budget and the first request
GcsEnter ==
    /\ gcsPc = "start"
    /\ IF ~gcsKey
       THEN /\ gcsPc' = "thrown"
            /\ UNCHANGED maxTokensSent
       ELSE /\ gcsPc' = "streaming"
            /\ maxTokensSent' =
                 <<outputBudget(configMaxTokens, modelWindow, inputTokens)>>
    /\ UNCHANGED <<gcsKey, gcsLanguage, configMaxTokens, modelWindow, inputTokens,
                   gcsAccumulated, cleaned, cont, contAccumulated, gcsEnds,
                   emitted, gcsResult>>
    /\ UNCHANGED <<fnVars, contVars, mainVars, envVars, regionVars, reqVars, extVars>>

\* a delta of the first response: accumulated += delta; onChunk(accumulated)
GcsDelta(delta) ==
    /\ gcsPc = "streaming"
    /\ InFirstResponses(gcsAccumulated \o delta)
    /\ gcsAccumulated' = gcsAccumulated \o delta
    /\ emitted' = <<gcsAccumulated'>>
    /\ UNCHANGED <<gcsPc, gcsKey, gcsLanguage, configMaxTokens, modelWindow,
                   inputTokens, maxTokensSent, cleaned, cont, contAccumulated,
                   gcsEnds, gcsResult>>
    /\ UNCHANGED <<fnVars, contVars, mainVars, envVars, regionVars, reqVars, extVars>>

\* the first request fails: a status >= 400 (before any delta) or an error of
\* the request or of the response; the promise rejects
GcsFail(how) ==
    /\ gcsPc = "streaming"
    /\ how = "status" => gcsAccumulated = <<>>
    /\ gcsEnds' = Append(gcsEnds, how)
    /\ gcsPc' = "thrown"
    /\ UNCHANGED <<gcsKey, gcsLanguage, configMaxTokens, modelWindow, inputTokens,
                   maxTokensSent, gcsAccumulated, cleaned, cont, contAccumulated,
                   emitted, gcsResult>>
    /\ UNCHANGED <<fnVars, contVars, mainVars, envVars, regionVars, reqVars, extVars>>

\* the head of the auto-continuation loop with the assembled text and the loop
\* variable it is reached with: the next request, or onChunk(cleaned) and return
GcsLoop(text, c, estimate) ==
    IF ContLoopContinues(c) /\ AsksContinuation(text, gcsLanguage)
    THEN /\ gcsPc' = "contStreaming"
         /\ inputTokens' = estimate
         /\ maxTokensSent' =
              Append(maxTokensSent, outputBudget(configMaxTokens, modelWindow, estimate))
         /\ UNCHANGED <<emitted, gcsResult>>
    ELSE /\ gcsPc' = "returned"
         /\ emitted' = <<text>>
         /\ gcsResult' = <<text>>
         /\ UNCHANGED <<inputTokens, maxTokensSent>>

\* the first response ends: clean, then the loop
GcsEnd(estimate) ==
    /\ gcsPc = "streaming"
    /\ gcsEnds' = Append(gcsEnds, "end")
    /\ cleaned' = cleanResponse(gcsAccumulated)
    /\ contAccumulated' = <<>>
    /\ GcsLoop(cleaned', cont, estimate)
    /\ UNCHANGED <<gcsKey, gcsLanguage, configMaxTokens, modelWindow,
                   gcsAccumulated, cont>>
    /\ UNCHANGED <<fnVars, contVars, mainVars, envVars, regionVars, reqVars, extVars>>

\* a delta of a continuation response
GcsContDelta(delta) ==
    /\ gcsPc = "contStreaming"
    /\ Len(contAccumulated) + Len(delta) <= MaxContLen
    /\ contAccumulated' = contAccumulated \o delta
    /\ emitted' = <<cleaned \o <<"\n">> \o cleanResponse(contAccumulated')>>
    /\ UNCHANGED <<gcsPc, gcsKey, gcsLanguage, configMaxTokens, modelWindow,
                   inputTokens, maxTokensSent, gcsAccumulated, cleaned, cont,
                   gcsEnds, gcsResult>>
    /\ UNCHANGED <<fnVars, contVars, mainVars, envVars, regionVars, reqVars, extVars>>

\* a continuation response ends, or the continuation fails (status >= 400
\* before any delta, error of the request or of the response): the promise
\* resolves, the round is merged, cont++ and the loop goes on
GcsContOver(how, estimate) ==
    /\ gcsPc = "contStreaming"
    /\ how = "status" => contAccumulated = <<>>
    /\ gcsEnds' = Append(gcsEnds, how)
    /\ IF ContFailureRaises(how)
       THEN /\ gcsPc' = "thrown"
            /\ UNCHANGED <<cleaned, cont, contAccumulated, inputTokens,
                           maxTokensSent, emitted, gcsResult>>
       ELSE /\ cleaned' = MergeCont(cleaned, contAccumulated)
            /\ cont' = cont + 1
            /\ contAccumulated' = <<>>
            /\ GcsLoop(cleaned', cont', estimate)
    /\ UNCHANGED <<gcsKey, gcsLanguage, configMaxTokens, modelWindow, gcsAccumulated>>
    /\ UNCHANGED <<fnVars, contVars, mainVars, envVars, regionVars, reqVars, extVars>>

GcsNext ==
    \/ GcsEnter
    \/ \E delta \in FirstDeltas : GcsDelta(delta)
    \/ \E how \in {"status", "error"} : GcsFail(how)
    \/ \E estimate \in InputEstimates : GcsEnd(estimate)
    \/ \E delta \in ContDeltas : GcsContDelta(delta)
    \/ \E how \in {"end", "status", "error"}, estimate \in InputEstimates :
          GcsContOver(how, estimate)

InitGcs == GcsInit /\ FnIdle /\ ContIdle /\ MainIdle /\ RegionIdle /\ ReqIdle /\ ExtIdle

SpecGcs == InitGcs /\ [][GcsNext]_vars

\* the three generation loops side by side
InitControllers ==
    \/ ContInit /\ GcsIdle /\ FnIdle /\ MainIdle /\ RegionIdle /\ ReqIdle /\ ExtIdle
    \/ GcsInit /\ ContIdle /\ FnIdle /\ MainIdle /\ RegionIdle /\ ReqIdle /\ ExtIdle

ControllersNext == ContNext \/ GcsNext

SpecControllers == InitControllers /\ [][ControllersNext]_vars

-----------------------------------------------------------------------------
(* Harness of the pure functions: Init draws the arguments, one action per *)
(* function applies it.                                                    *)

\* short texts, and texts around the window of 500 characters (chosen so that
\* the scan of a long pair ends within a few candidates)
ShortTexts == TextsUpTo({"a", "b"}, MaxStrLen)

LongCurrents ==
    {Repeat("a", n) : n \in {OverlapWindow - 1, OverlapWindow, OverlapWindow + 1}}

LongAdditions ==
    LongCurrents \cup {Repeat("a", OverlapWindow - 2) \o <<"b", "a", "a">>}

AppendInit ==
    /\ fnPc = "args"
    /\ current \in ShortTexts \cup LongCurrents
    /\ addition \in ShortTexts \cup LongAdditions
    /\ appended = <<>>
    /\ code = <<>> /\ language = <<>> /\ incomplete = FALSE

\* the same harness on short texts only
SplitInit ==
    /\ fnPc = "args"
    /\ current \in ShortTexts
    /\ addition \in ShortTexts
    /\ appended = <<>>
    /\ code = <<>> /\ language = <<>> /\ incomplete = FALSE

AppendCall ==
    /\ fnPc = "args"
    /\ appended' = appendAvoidingOverlap(current, addition)
    /\ fnPc' = "done"
    /\ UNCHANGED <<current, addition, code, language, incomplete>>
    /\ UNCHANGED <<contVars, mainVars, envVars, regionVars, reqVars, gcsVars, extVars>>

InitAppend == AppendInit /\ ContIdle /\ MainIdle /\ RegionIdle /\ ReqIdle /\ GcsIdle /\ ExtIdle

SpecAppend == InitAppend /\ [][AppendCall]_vars

InitSplit == SplitInit /\ ContIdle /\ MainIdle /\ RegionIdle /\ ReqIdle /\ GcsIdle /\ ExtIdle

SpecSplit == InitSplit /\ [][AppendCall]_vars

\* texts of 47..52+ characters after trimming: filler, a run of delimiters, a tail
Delimiters == {"{", "}", "(", ")", "[", "]"}

CodeTails ==
    { <<>>,
      <<"\n">>,
      <<"<", "/", "h", "t", "m", "l", ">">>,
      <<"<", "/", "H", "T", "M", "L", " ", ">", "\n">> }

CodeTexts ==
    { lead \o Repeat("x", n) \o core \o tail :
        lead \in {<<>>, <<" ">>},
        n \in {MinJudgeLen - 3, MinJudgeLen - 1, MinJudgeLen},
        core \in TextsUpTo(Delimiters, MaxCoreLen),
        tail \in CodeTails }

Languages ==
    { <<"h", "t", "m", "l">>, <<"H", "T", "M">>,
      <<"j", "s", "x">>, <<"T", "S", "X">>, <<"r", "e", "a", "c", "t">>,
      <<"c", "s", "s">>, <<"S", "C", "S", "S">>,
      <<"j", "s">>, <<"p", "y">> }

LooksInit ==
    /\ fnPc = "args"
    /\ code \in CodeTexts
    /\ language \in Languages
    /\ incomplete = FALSE
    /\ current = <<>> /\ addition = <<>> /\ appended = <<>>

LooksCall ==
    /\ fnPc = "args"
    /\ incomplete' = looksIncomplete(code, language)
    /\ fnPc' = "done"
    /\ UNCHANGED <<current, addition, appended, code, language>>
    /\ UNCHANGED <<contVars, mainVars, envVars, regionVars, reqVars, gcsVars, extVars>>

InitLooks == LooksInit /\ ContIdle /\ MainIdle /\ RegionIdle /\ ReqIdle /\ GcsIdle /\ ExtIdle

SpecLooks == InitLooks /\ [][LooksCall]_vars

\* appendAvoidingOverlap on its own and inside the generation loops
InitAssembly ==
    \/ AppendInit /\ ContIdle /\ GcsIdle /\ MainIdle /\ RegionIdle /\ ReqIdle /\ ExtIdle
    \/ InitControllers

AssemblyNext == AppendCall \/ ControllersNext

SpecAssembly == InitAssembly /\ [][AssemblyNext]_vars

\* looksIncomplete on its own and inside generateCodeStreaming
InitJudge == InitLooks \/ InitGcs

JudgeNext == LooksCall \/ GcsNext

SpecJudge == InitJudge /\ [][JudgeNext]_vars

-----------------------------------------------------------------------------
(* Properties of the pure functions.                                       *)

\* the overlaps the contract allows: lengths l, 1 <= l <= min(500, |current|,
\* |addition|), such that the last l characters of current are the first l of
\* addition
Overlaps(cur, add) ==
    { l \in 1..Min(OverlapWindow, Min(Len(cur), Len(add))) :
        SubSeq(cur, Len(cur) - l + 1, Len(cur)) = SubSeq(add, 1, l) }

LongestOverlap(cur, add) ==
    IF Overlaps(cur, add) = {} THEN 0
    ELSE CHOOSE l \in Overlaps(cur, add) : \A m \in Overlaps(cur, add) : m <= l

C8_AppenderContract ==
    fnPc = "done" =>
        /\ current = <<>> => appended = addition
        /\ addition = <<>> => appended = current
        /\ (current # <<>> /\ addition # <<>>) =>
              appended = current \o
                  SubSeq(addition, LongestOverlap(current, addition) + 1, Len(addition))

\* the window decides: both texts are longer than 500 and overlap in full
C8_Witness ==
    /\ fnPc = "done"
    /\ Len(current) > OverlapWindow
    /\ Len(addition) > OverlapWindow
    /\ EndsWith(current, addition)
    /\ Len(appended) = Len(current) + Len(addition) - OverlapWindow

\* the delimiter pairs looksIncomplete is said to balance for a content type
DelimiterPairs(lang) ==
    IF IsReactLang(lang) THEN {<<"{", "}">>, <<"(", ")">>}
    ELSE IF IsCssLang(lang) THEN {<<"{", "}">>}
    ELSE {<<"{", "}">>, <<"(", ")">>, <<"[", "]">>}

Balanced(text, lang) ==
    \A p \in DelimiterPairs(lang) : Count(text, {p[1]}) = Count(text, {p[2]})

OneUnmatchedOpen(text, lang) ==
    \E p \in DelimiterPairs(lang) :
        /\ Count(text, {p[1]}) = Count(text, {p[2]}) + 1
        /\ \A q \in DelimiterPairs(lang) \ {p} :
              Count(text, {q[1]}) = Count(text, {q[2]})

\* C9: for a delimiter-counted content type and a text of at least 50
\* characters, looksIncomplete is false when every kind of delimiter is balanced
\* (braces, parentheses and square brackets in the default branch) and true
\* when there is one unmatched opening delimiter.
C9_BalanceInvariant ==
    (fnPc = "done" /\ Len(Trim(code)) >= MinJudgeLen
        /\ ~IsHtmlLang(ToLowerCase(language))) =>
        /\ Balanced(Trim(code), ToLowerCase(language)) => ~incomplete
        /\ OneUnmatchedOpen(Trim(code), ToLowerCase(language)) => incomplete


-----------------------------------------------------------------------------
(* Properties of the stream updater, the edit operation and checkpoints.   *)

IsPrefix(t, s) == StartsWith(s, t)

\* the edits of apply / applyPending that have not settled
ApplyEditsInFlight == {i \in 1..Len(inflight) : inflight[i].owner = "apply"}

\* the target region of the session: the tracked range, or the whole document
Region == IF mode = "selection" THEN SubSeq(doc, startOffset + 1, currentEnd) ELSE doc

OriginalRegion ==
    IF mode = "selection"
    THEN SubSeq(origDoc, startOffset + 1, startOffset + originalLen)
    ELSE origDoc

originalPrefix == SubSeq(origDoc, 1, startOffset)

originalSuffix == SubSeq(origDoc, startOffset + originalLen + 1, Len(origDoc))

\* nothing but the operation has written to the document: its checkpoint, if it
\* has one, is unresolved and no checkpointAction handler runs
Undisturbed ==
    /\ cpAct = <<>>
    /\ cpId # 0 => \E c \in checkpoints : c.id = cpId

\* C1 (as stated): when flush() resolves after onChunk(d1) .. onChunk(dn), each
\* text extending the one before, the target region holds dn.  (The last text
\* handed to onChunk is newBlock; it extends the others when trimming changed
\* nothing.)
C1_FlushedRegionIsLatest ==
    (opPc = "final" /\ Undisturbed /\ accumulated # <<>> /\ newBlock = accumulated) =>
        Region = newBlock

\* C1 (amended): when flush() resolves, no write of the session is in flight or
\* pending and the target region holds the text of the last write of the session
\* that landed, which is one of d1..dn, or its original content if none landed;
\* in a range updater the text around the region is untouched.
C1_FlushedRegionIsLastLanded ==
    (opPc = "final" /\ Undisturbed) =>
        /\ ~busy /\ pending = <<>> /\ ApplyEditsInFlight = {}
        /\ Region = (IF lastWritten = <<>> THEN OriginalRegion ELSE lastWritten[1])
        /\ lastWritten # <<>> =>
              (IsPrefix(lastWritten[1], accumulated) \/ lastWritten[1] = newBlock)
        /\ mode = "selection" => doc = originalPrefix \o Region \o originalSuffix

\* flush() waited for a write that landed, and the last text was throttled away
C1_Witness ==
    /\ opPc = "final" /\ Undisturbed /\ flushWaited
    /\ lastWritten # <<>>
    /\ newBlock = accumulated
    /\ lastWritten[1] # newBlock

\* C2: at most one edit of apply / applyPending is in flight, and only while
\* busy is set.
C2_OneMutationInFlight ==
    /\ Cardinality(ApplyEditsInFlight) <= 1
    /\ ApplyEditsInFlight # {} => busy

\* a text arrived while an edit was in flight
C2_Witness ==
    /\ ApplyEditsInFlight # {}
    /\ pending # <<>>

\* C3: when a checkpointAction 'discard' has run its restoring edit and ends, the
\* document equals the snapshot of the checkpoint.
C3_DiscardRestoresSnapshot ==
    [][(cpAct # <<>> /\ cpAct' = <<>> /\ cpAct[1].pc = "editing")
          => doc' = cpAct[1].content]_vars

\* C4: once a selection edit is complete (range writes, flush, and the final
\* write applied), the document is originalPrefix + newBlock + originalSuffix.
C4_SelectionEditIsLocal ==
    (opPc = "done" /\ mode = "selection" /\ Undisturbed /\ finalOutcome = "ok") =>
        doc = originalPrefix \o newBlock \o originalSuffix

\* C10: the step in which flush() resolves is taken with busy clear and no edit
\* of the session in flight.
C10_FlushDrainBarrier ==
    [][(opPc = "flush" /\ opPc' # "flush") =>
          (~busy /\ ApplyEditsInFlight = {})]_vars

\* flush() resolved after having found busy set
C10_Witness ==
    /\ opPc = "final"
    /\ flushWaited

\* the edits of apply that have not settled, in order of issue
ApplyEdits(q) == SelectSeq(q, LAMBDA e : e.owner = "apply")

\* the step ends a run of apply: its edit settles (range updater), or
\* replaceFullDocument returns (whole-file updater)
ApplyRunEnds ==
    \/ /\ applyPc = "editing"
       /\ ApplyEdits(inflight') # ApplyEdits(inflight)
       /\ applyPc' # "sleeping"
    \/ /\ applyPc = "sleeping"
       /\ applyPc' # "sleeping"
       /\ applyAttempt' # applyAttempt + 1

\* the step starts a write of text t on the document as it is after the step
WriteStarts(t) ==
    /\ busy' /\ pending' = <<>> /\ applyPc' = "editing" /\ applyText' = t
    /\ ApplyEdits(inflight') # <<>>
    /\ LET e == ApplyEdits(inflight')[Len(ApplyEdits(inflight'))]
       IN  e.text = t /\ e.ver = docVersion'

\* C11: the backlog of a session is one slot, which holds the newest accepted
\* text and only while a write is under way; the step that ends a write with the
\* slot filled starts the write of the text in the slot, and the slot is never
\* emptied in any other way.
C11_LastWriteWins ==
    /\ [](/\ Len(pending) <= 1
          /\ pending # <<>> => (busy /\ applyPc # "idle" /\ Len(pending[1]) = lastLen))
    /\ [][/\ (ApplyRunEnds /\ pending # <<>>) => WriteStarts(pending[1])
          /\ (pending # <<>> /\ pending' = <<>>) => WriteStarts(pending[1])]_vars

\* the first write is still in flight and the slot has been overwritten: the text
\* in it is at least two thresholds longer than the one being written, and a
\* delta is no longer than the threshold, so a text in between was accepted
C11_Witness ==
    /\ mode = "selection" /\ MaxDelta <= MinCharsRange
    /\ applyPc = "editing" /\ lastWritten = <<>>
    /\ pending # <<>>
    /\ Len(pending[1]) >= Len(applyText) + 2 * MinCharsRange

\* the edits the running operation has issued and that have not settled
OperationEdits ==
    {i \in 1..Len(inflight) : inflight[i].owner \in {"placeholder", "apply", "final"}}

\* C12: when an operation issues an edit of the document, it has stored a
\* checkpoint before, and the checkpoint, as long as it is in the store, holds
\* the text the document had before the first edit of the operation.
C12_CheckpointBeforeMutation ==
    OperationEdits # {} =>
        /\ cpId # 0
        /\ \A c \in checkpoints : c.id = cpId => c.content = origDoc

\* C13: the entry of a resolved checkpoint id is not in the store, and a
\* checkpointAction message for a resolved id changes neither the document nor
\* the store, and starts no edit.
C13_ConsumedOnce ==
    /\ [](\A id \in ResolvedIds : ~Found(id))
    /\ [][replays' # replays =>
            /\ doc' = doc /\ checkpoints' = checkpoints
            /\ inflight' = inflight /\ cpAct' = cpAct]_vars

\* a message for a resolved id has been received after the edit changed the text
C13_Witness ==
    /\ replays > 0
    /\ opPc = "done" /\ doc # origDoc

\* C14: the step that handles a 'keep' removes the entry of the id and changes
\* neither the document nor the edits in flight.
C14_KeepLeavesDocument ==
    [][\A r \in resolved' \ resolved :
          r.action = "keep" =>
              /\ doc' = doc /\ docVersion' = docVersion /\ inflight' = inflight
              /\ \A c \in checkpoints' : c.id # r.id]_vars

\* an edit that changed the text has been kept
C14_Witness ==
    /\ \E r \in resolved : r.action = "keep" /\ r.id = cpId
    /\ opPc = "done" /\ doc # origDoc

\* some line of the file reaches the score threshold for the instruction
SomeLineScores ==
    LET kws == keywords(ToLowerCase(instruction))
        pats == sectionPatterns(ToLowerCase(instruction))
    IN  \E k \in 1..Len(lines) : lineScore(lines[k], kws, pats) >= MinScore

\* C15: with a non-empty selection the region is the selection, whatever the
\* size of the file; otherwise, in a file of more than 80 lines with a line that
\* reaches the score threshold, it is the range of findRelevantSection, from the
\* start of its first line to the end of its last; otherwise it is the whole text.
C15_TargetRegionDecision ==
    regionPc = "done" =>
        LET t == target[1]
        IN  IF selection[1] # selection[2]
            THEN t.mode = "selection" /\ t.from = selection[1] /\ t.to = selection[2]
            ELSE IF Len(lines) > LargeFile /\ SomeLineScores
            THEN /\ t.mode = "section"
                 /\ findRelevantSection(lines, instruction) # NoRange
                 /\ t.from = LineStart(lines, findRelevantSection(lines, instruction)[1].start)
                 /\ t.to = LineEnd(lines, findRelevantSection(lines, instruction)[1].end)
            ELSE t.mode = "whole" /\ t.from = 0 /\ t.to = TextLength(lines)

\* a file of exactly 80 lines with a scoring line and no selection: whole file
C15_Witness ==
    /\ regionPc = "done"
    /\ selection[1] = selection[2]
    /\ Len(lines) = LargeFile /\ SomeLineScores
    /\ target[1].mode = "whole"

\* C16: in a file of more than 80 lines, the range of findRelevantSection
\* contains the anchor line and is shorter than the file.
C16_SectionContainsAnchor ==
    (regionPc = "done" /\ Len(lines) > LargeFile
        /\ findRelevantSection(lines, instruction) # NoRange) =>
        LET r == findRelevantSection(lines, instruction)[1]
            anchor == Best(lines, instruction)[1]
        IN  /\ r.start <= anchor /\ anchor <= r.end
            /\ 0 <= r.start /\ r.end <= Len(lines) - 1
            /\ r.end - r.start + 1 < Len(lines)

isAuthFailure(o) == o.kind = "http" /\ o.status \in {401, 403}

\* C17: a request that ends with status 401 or 403 is the last one of the call:
\* the call has thrown that error and has issued no request after it; when the
\* first request ends so, the call has made exactly one request.
C17_AuthFailureNotRetried ==
    \A k \in 1..Len(responses) :
        isAuthFailure(responses[k]) =>
            /\ k = Len(responses) /\ httpCalls = k
            /\ reqPc = "thrown" /\ reqError = <<responses[k]>>
            /\ Len(backoffs) = k - 1

C17_Witness ==
    /\ reqPc = "thrown" /\ httpCalls = 1
    /\ Len(responses) = 1 /\ isAuthFailure(responses[1])

\* C18: the k-th request of a call that ends with a transient network error is
\* followed, for k = 1, 2, 3, by a sleep of 500 * 2^(k-1) ms and a retry; the
\* fourth is thrown to the caller; a call sleeps at most three times.
C18_TransientBackoff ==
    /\ Len(backoffs) <= MAX_RETRIES /\ httpCalls <= MAX_RETRIES + 1
    /\ \A k \in 1..Len(responses) :
          isTransientNetwork(responses[k]) =>
              IF k <= MAX_RETRIES
              THEN /\ Len(backoffs) >= k /\ backoffs[k] = BackoffBase * 2 ^ (k - 1)
                   /\ k = Len(responses) =>
                         \/ reqPc = "sleeping" /\ httpCalls = k
                         \/ reqPc = "awaiting" /\ httpCalls = k + 1
              ELSE /\ reqPc = "thrown" /\ reqError = <<responses[k]>>
                   /\ Len(backoffs) = MAX_RETRIES

\* four transient network errors in a row: sleeps of 500, 1000 and 2000 ms, then
\* the error is thrown
C18_Witness ==
    /\ reqPc = "thrown"
    /\ Len(responses) = MAX_RETRIES + 1
    /\ \A k \in 1..Len(responses) : isTransientNetwork(responses[k])
    /\ backoffs = <<500, 1000, 2000>>

\* C19: when every attempt of the final write of a whole-file edit has been
\* rejected, the user is not told that the code was updated.
C19_ExhaustedWriteIsReported ==
    (mode = "whole" /\ finalOutcome = "failed") => uiMessage # "updated"

\* C20: a failed chat edit leaves its checkpoint, with the text from before the
\* edit, in the store until the user resolves it, and the discard of that
\* checkpoint ends with the document back at that text.
C20_RollbackAfterFailure ==
    /\ []((opPc = "failed" /\ cpId # 0 /\ cpId \notin ResolvedIds) =>
             \E c \in checkpoints : c.id = cpId /\ c.content = origDoc)
    /\ [][(opPc = "failed" /\ cpAct # <<>> /\ cpAct' = <<>>
             /\ cpAct[1].id = cpId /\ cpAct[1].pc = "editing") => doc' = origDoc]_vars

\* C21: a generation loop whose rounds are used up returns the text it has
\* assembled, and a continuation request of generateCodeStreaming that fails
\* never makes the call throw: the call goes on from the text assembled so far,
\* which is kept as a prefix, and what it returns is the assembled text.
C21_PartialOutputBeatsNone ==
    /\ []((contPc \notin {"idle", "start"}
             /\ attempt >= MAX_CONTINUATIONS(contKind, contOption)) =>
            (contPc = "done" /\ contResult = Returned(contKind, assembled)))
    /\ [](cont >= StreamingContinuations =>
            (gcsPc = "returned" /\ gcsResult = <<cleaned>>))
    /\ [][gcsPc = "contStreaming" =>
            /\ gcsPc' \in {"contStreaming", "returned"}
            /\ IsPrefix(cleaned, cleaned')
            /\ gcsPc' = "returned" => gcsResult' = <<cleaned'>>]_vars

\* the second continuation fails after a delta, and the call returns the first
\* response with both continuations merged
C21_Witness ==
    /\ gcsPc = "returned"
    /\ cont = StreamingContinuations
    /\ gcsEnds = <<"end", "end", "error">>
    /\ gcsResult = <<cleaned>>
    /\ Len(cleaned) >= Len(Trim(gcsAccumulated)) + 4

\* the step issues an edit of apply: the newest apply edit in flight after the
\* step was not in flight before it
IssuesApplyEdit ==
    LET before == ApplyEdits(inflight)
        after == ApplyEdits(inflight')
    IN  /\ after # <<>>
        /\ \/ before = <<>>
           \/ Len(after) > Len(before)
           \/ after[Len(after)] # before[Len(before)]

\* C22: the session writes its texts in the order they were handed to onChunk
\* (the streamed text only grows, so a later text extends an earlier one): a
\* write starts with the newest accepted text, which is the text in the slot or
\* the one handed over in this step, or repeats the text of the attempt before
\* it; it extends every text written before, and the texts that land extend
\* one another.
C22_SessionWritesInOrder ==
    [][/\ IssuesApplyEdit =>
            LET t == ApplyEdits(inflight')[Len(ApplyEdits(inflight'))].text
            IN  /\ \/ applyPc = "sleeping" /\ t = applyText
                   \/ /\ Len(t) = lastLen'
                      /\ t = applyText'
                      /\ \/ pending # <<>> /\ t = pending[Len(pending)]
                         \/ pending = <<>> /\ t = accumulated'
                /\ IsPrefix(applyText, t)
                /\ lastWritten # <<>> => IsPrefix(lastWritten[1], t)
       /\ (lastWritten # <<>> /\ lastWritten' # lastWritten) =>
             (lastWritten' # <<>> /\ IsPrefix(lastWritten[1], lastWritten'[1]))]_vars

\* one write has landed and the write under way is of a text at least two
\* thresholds longer, while a delta is no longer than the threshold: a text
\* accepted in between is not in the document
C22_Witness ==
    /\ mode = "selection" /\ MaxDelta <= MinCharsRange
    /\ lastWritten # <<>>
    /\ applyPc = "editing"
    /\ Len(applyText) >= Len(lastWritten[1]) + 2 * MinCharsRange
    /\ Len(inflight) = 1

\* C23: a write that starts (other than the retry of the same text) is of a text
\* at least minChars longer than the text of the write before it, and an
\* onChunk whose text is less than minChars longer than the last accepted one
\* leaves the slot, the session and the edits in flight as they are.
C23_Throttle ==
    [][/\ (IssuesApplyEdit /\ applyPc # "sleeping") =>
            LET t == ApplyEdits(inflight')[Len(ApplyEdits(inflight'))].text
            IN  /\ Len(t) - Len(applyText) >= minChars(mode)
                /\ lastWritten # <<>> => Len(t) - Len(lastWritten[1]) >= minChars(mode)
       /\ (accumulated' # accumulated /\ opPc = "streaming"
             /\ Len(accumulated') - lastLen < minChars(mode)) =>
            UNCHANGED <<pending, lastLen, busy, applyPc, applyText, inflight, doc>>]_vars

\* a write has landed, the stream has since grown by less than minChars, and
\* nothing is pending or in flight: the document is behind the stream
C23_Witness ==
    /\ opPc = "streaming"
    /\ lastWritten # <<>> /\ Len(lastWritten[1]) = lastLen
    /\ Len(accumulated) > lastLen
    /\ Len(accumulated) - lastLen < minChars(mode)
    /\ pending = <<>> /\ ~busy /\ inflight = <<>>

\* the text the range updater has put in its range: the last write that landed,
\* or the original text of the region
TrackedText == IF lastWritten = <<>> THEN OriginalRegion ELSE lastWritten[1]

\* C24: a range updater issues each edit on the tracked range
\* [startOffset, currentEnd) (as positions of the document, which are these
\* offsets while nothing else has written to it); currentEnd is startOffset plus the length of the
\* last write that landed (of the original region when none has), so a rejected
\* or throwing edit leaves it alone; and while nothing but the session has
\* written to the document, the tracked range holds that text between the
\* original prefix and suffix.
C24_RangeTracking ==
    /\ [](mode = "selection" =>
            /\ currentEnd = startOffset + Len(TrackedText)
            /\ (opPc \in {"streaming", "flush", "final", "failed"} /\ Undisturbed) =>
                  /\ Region = TrackedText
                  /\ doc = originalPrefix \o TrackedText \o originalSuffix)
    /\ [][(mode = "selection" /\ IssuesApplyEdit) =>
            LET e == ApplyEdits(inflight')[Len(ApplyEdits(inflight'))]
            IN  /\ e.from = positionAt(doc', startOffset)
                /\ e.to = positionAt(doc', currentEnd')
                /\ Undisturbed' => (e.from = startOffset /\ e.to = currentEnd')]_vars

\* a write of the range updater landed and changed the length of the range, and
\* the write of a later accepted text was rejected or threw
C24_Witness ==
    /\ mode = "selection" /\ opPc = "streaming" /\ Undisturbed
    /\ lastWritten # <<>>
    /\ Len(lastWritten[1]) # originalLen
    /\ lastLen > Len(lastWritten[1])
    /\ ~busy /\ pending = <<>> /\ inflight = <<>>

\* the final edits in flight (at most one)
FinalEdits(q) == SelectSeq(q, LAMBDA e : e.owner = "final")

\* C25: in a range edit, flush() having resolved, the final write is issued
\* exactly when the text at startOffset does not start with the final text; its
\* range is [startOffset, min(Len(doc), startOffset + max(Len(newBlock),
\* originalLen))), which ends within the document and is no longer than
\* max(Len(newBlock), originalLen); the later attempts reuse that range.
C25_FinalSafeRange ==
    [][mode = "selection" =>
         /\ (opPc = "final" /\ opPc' # "final") =>
               (FinalEdits(inflight') # <<>>
                   <=> ~StartsWith(SliceFrom(doc, startOffset), newBlock))
         /\ Len(FinalEdits(inflight')) > Len(FinalEdits(inflight)) =>
               LET e == FinalEdits(inflight')[1]
                   bound == Max(Len(newBlock), originalLen)
               IN  /\ e.text = newBlock
                   /\ e.to - e.from <= bound
                   /\ opPc = "final" =>
                         /\ e.from = startOffset
                         /\ e.to = Min(Len(doc), startOffset + bound)
                         /\ e.from <= e.to /\ e.to <= Len(doc)
                         /\ finalRange' = <<e.from, e.to>>
                   /\ opPc # "final" => <<e.from, e.to>> = finalRange]_vars

\* the final text is longer than the room from startOffset to the end of the
\* document: the range of the first attempt ends at the end of the document
C25_Witness ==
    /\ mode = "selection" /\ opPc = "finalEdit" /\ finalAttempt = 0
    /\ FinalEdits(inflight) # <<>>
    /\ finalRange[2] = Len(doc)
    /\ startOffset + Max(Len(newBlock), originalLen) > Len(doc)

\* C26: the k-th sleep of a call follows attempt k - 1; when that attempt ended
\* with status 429 the sleep is max(500 * 2^(k-1), retry-after * 1000) ms if the
\* retry-after header is a positive number, 500 * 2^(k-1) ms otherwise, and in
\* neither case shorter than a positive retry-after.
C26_RateLimitBackoffFloor ==
    /\ Len(backoffs) <= Len(responses)
    /\ \A k \in 1..Len(backoffs) :
          (responses[k].kind = "http" /\ responses[k].status = 429) =>
              LET ra == responses[k].retryAfter
                  base == 500 * 2 ^ (k - 1)
              IN  /\ backoffs[k] = (IF ra > 0 THEN Max(base, ra * 1000) ELSE base)
                  /\ backoffs[k] >= base
                  /\ ra > 0 => backoffs[k] >= ra * 1000

\* three rate-limited attempts: the header wins over the base once, the base is
\* at least the header twice
C26_Witness ==
    /\ Len(responses) >= 3 /\ Len(backoffs) = 3
    /\ \A k \in 1..3 : responses[k].kind = "http" /\ responses[k].status = 429
    /\ responses[1].retryAfter = 3 /\ backoffs[1] = 3000
    /\ responses[2].retryAfter = 1 /\ backoffs[2] = 1000
    /\ responses[3].retryAfter = -1 /\ backoffs[3] = 2000

\* C27: a reply whose content is missing, empty or white space only ends the
\* call with the error 'Groq returned an empty response': no request and no
\* sleep follows it, so a call whose first reply is such a reply has made
\* exactly one request and has not slept.
C27_EmptyResponseIsHardFailure ==
    \A k \in 1..Len(responses) :
        (/\ responses[k].kind = "reply"
         /\ \A i \in 1..Len(responses[k].content) :
               responses[k].content[i] \in WhiteSpace) =>
            /\ k = Len(responses)
            /\ reqPc = "thrown"
            /\ reqError = <<"Groq returned an empty response">>
            /\ httpCalls = k
            /\ Len(backoffs) = k - 1
            /\ k = 1 => (httpCalls = 1 /\ backoffs = <<>>)

\* the first reply holds white space only
C27_Witness ==
    /\ responses = <<Reply(<<" ", "\n">>)>>
    /\ reqPc = "thrown"
    /\ httpCalls = 1

\* the step sends a continuation request
SendsContinuation ==
    Len(maxTokensSent) >= 1 /\ Len(maxTokensSent') = Len(maxTokensSent) + 1

\* the requests sent have all ended or failed
AllStreamsOver == maxTokensSent # <<>> /\ Len(gcsEnds) = Len(maxTokensSent)

\* what holds of the auto-continuation whatever the call ends with
ContinuationIsBounded ==
    /\ [](/\ cont <= 2
          /\ Len(maxTokensSent) <= 3
          /\ maxTokensSent # <<>> =>
                Len(maxTokensSent) =
                    1 + cont + (IF gcsPc = "contStreaming" THEN 1 ELSE 0))
    /\ [][SendsContinuation => looksIncomplete(cleaned', gcsLanguage)]_vars

\* C28 (as stated): a continuation request is sent only when looksIncomplete
\* holds of the text assembled so far, at most 2 of them are sent (3 requests
\* in all), and when every response stream has ended or errored the call has
\* returned.
C28_BoundedAndReturns ==
    /\ ContinuationIsBounded
    /\ [](AllStreamsOver => gcsPc = "returned")

\* C28 (amended): the same, but a call whose first request failed has thrown;
\* every other call whose streams are all over has returned the assembled text.
C28_BoundedAndSettles ==
    /\ ContinuationIsBounded
    /\ [](AllStreamsOver =>
            IF gcsEnds[1] = "end"
            THEN gcsPc = "returned" /\ gcsResult = <<cleaned>>
            ELSE gcsPc = "thrown" /\ Len(maxTokensSent) = 1 /\ gcsResult = <<>>)

\* two continuations were sent and the text returned still looks incomplete
C28_Witness ==
    /\ gcsPc = "returned"
    /\ Len(maxTokensSent) = 3 /\ Len(gcsEnds) = 3
    /\ looksIncomplete(cleaned, gcsLanguage)

\* the max_tokens of the request sent last; configMaxTokens, modelWindow and
\* inputTokens are the values it was computed from
LastMaxTokens == maxTokensSent[Len(maxTokensSent)]

\* C29 (as stated): max_tokens is min(configuredMax, modelWindow - inputTokens
\* - 100) floored at 1500: never below 1500, and above configuredMax only when
\* it is the floor.
C29_BudgetFromConfiguredMax ==
    maxTokensSent # <<>> =>
        /\ LastMaxTokens =
              Max(Min(configMaxTokens, modelWindow - inputTokens - 100), 1500)
        /\ LastMaxTokens >= 1500
        /\ LastMaxTokens > configMaxTokens => LastMaxTokens = 1500

\* C29 (amended): with desired = max(configuredMax, 2048), max_tokens is
\* min(desired, modelWindow - inputTokens - 100) floored at 1500: never below
\* 1500 and never above desired.
C29_BudgetFromDesiredOutput ==
    maxTokensSent # <<>> =>
        LET desired == Max(configMaxTokens, 2048)
        IN  /\ LastMaxTokens =
                  Max(Min(desired, modelWindow - inputTokens - 100), 1500)
            /\ LastMaxTokens >= 1500
            /\ LastMaxTokens <= desired

\* a first request with room to spare and a configured maximum of 1000, then a
\* continuation whose prompt leaves no room: 2048, then the floor
C29_Witness ==
    /\ configMaxTokens = 1000
    /\ Len(maxTokensSent) = 2
    /\ maxTokensSent = <<2048, 1500>>
    /\ modelWindow - inputTokens - 100 < 0

\* C30: appendAvoidingOverlap(current, addition) starts with current and ends
\* with addition, so it is at least as long as either; and in the generation
\* loops the assembled text of one step is a prefix of the assembled text of the
\* next.
C30_AssembledOnlyGrows ==
    /\ [](fnPc = "done" =>
            /\ Len(appended) >= Len(current) /\ Len(appended) >= Len(addition)
            /\ SubSeq(appended, 1, Len(current)) = current
            /\ SubSeq(appended, Len(appended) - Len(addition) + 1, Len(appended))
                  = addition)
    /\ [][/\ Len(assembled') >= Len(assembled)
          /\ SubSeq(assembled', 1, Len(assembled)) = assembled
          /\ Len(cleaned') >= Len(cleaned)
          /\ SubSeq(cleaned', 1, Len(cleaned)) = cleaned]_vars

\* three rounds of a continuation loop have been merged, one of them with an
\* overlap: the three pieces are longer together than the assembled text
C30_Witness ==
    /\ contPc = "done" /\ calls = 3
    /\ Len(assembled) = 4
    /\ contKind = "completeWithContinuation"

\* C31: checkpoint ids are fresh.  The counter never goes down; every capture
\* stores the snapshot of the document under an id that no earlier capture of
\* the provider was given, leaves every stored checkpoint as it was, and no two
\* stored checkpoints share an id.
C31_FreshCheckpointIds ==
    [][/\ checkpointCounter' >= checkpointCounter
       /\ minted' # minted =>
            /\ cpId' \notin {minted[k] : k \in 1..Len(minted)}
            /\ checkpoints \subseteq checkpoints'
            /\ [id |-> cpId', content |-> doc] \in checkpoints'
            /\ \A c, d \in checkpoints' : c.id = d.id => c = d]_vars

\* the last capture of the behaviour was made with two checkpoints still
\* unresolved and an older one resolved
C31_Witness ==
    /\ Len(minted) >= 3
    /\ Cardinality(checkpoints) >= 2
    /\ resolved # {}
    /\ cpId = minted[Len(minted)]
    /\ \E c \in checkpoints : c.id = cpId

\* C32: looksIncomplete returns false for every text whose trimmed length is
\* below 50, whatever the language, and generateCodeStreaming never asks for a
\* continuation of such a text.
C32_ShortTextIsComplete ==
    /\ (fnPc = "done" /\ Len(Trim(code)) < MinJudgeLen) => incomplete = FALSE
    /\ gcsPc = "contStreaming" => Len(Trim(cleaned)) >= MinJudgeLen

\* a text of 50 characters or more with an unmatched opening delimiter whose
\* trimmed length is below 50, judged complete
C32_Witness ==
    /\ fnPc = "done"
    /\ Len(code) >= MinJudgeLen
    /\ Len(Trim(code)) < MinJudgeLen
    /\ Count(code, DefaultOpens) > Count(code, DefaultCloses)
    /\ language = <<"j", "s">>
    /\ incomplete = FALSE

\* the positions of the operation from the moment flush() has resolved
PastFlush == {"final", "finalEdit", "finalSleep", "done"}

Discarded == cpId # 0 /\ [id |-> cpId, action |-> "discard"] \in resolved

\* C34: discard is final.  Once the 'discard' of the checkpoint of an edit
\* operation has completed, no write of that operation, streamed or final,
\* changes the document.
C34_DiscardIsFinal == [][Discarded => doc' = doc]_vars

\* the applied writes of one operation lie between those of the other
Interleaved(seq) ==
    \E i, j, k \in 1..Len(seq) :
        i < j /\ j < k /\ seq[i] = seq[k] /\ seq[j] # seq[i]

\* C35: mutual exclusion across edit operations.  With two operations running
\* on the document at overlapping times there are never two edits in flight at
\* once, and the applied writes of one do not interleave with the other's.
C35_MutualExclusion ==
    /\ Len(inflight) <= 1
    /\ ~Interleaved(landed)

\* the webview has been told loading = true more often than loading = false
LoadingShown == Count(posted, {"loadingOn"}) > Count(posted, {"loadingOff"})

\* C36: loading bracket.  A handler that has posted loading = true posts
\* loading = false before it returns, whether its body ends, returns early or
\* throws; so, the awaited calls settling, loading = true is always followed by
\* loading = false.
C36_LoadingBracket ==
    /\ [](hPc = "idle" => ~LoadingShown)
    /\ LoadingShown ~> ~LoadingShown

\* two messages were handled past the gate, the second by the agent handler,
\* one of them ended in the catch block, and both brackets are closed
C36_Witness ==
    /\ hPc = "idle"
    /\ hHandler = "agent"
    /\ Count(posted, {"loadingOn"}) = 2
    /\ Count(posted, {"loadingOff"}) = 2
    /\ Count(posted, {"error"}) >= 1
    /\ Count(posted, {"assistantMessage"}) = 0

\* C37: executePlan mode handling.  The plan message is processed by the
\* agent-mode handler, and when executePlan returns currentMode is the mode
\* that was in effect right before it started, whatever setMode messages
\* arrived while the plan was executing.
C37_ExecutePlanMode ==
    /\ []((hEntry = "executePlan" /\ hPc = "try") => hHandler = "agent")
    /\ [][(hEntry = "executePlan" /\ hEntry' = "none" /\ hResult' = "returned")
             => currentMode' = previousMode]_vars

\* t is s with something appended
StrictlyExtends(t, s) == Len(t) > Len(s) /\ IsPrefix(s, t)

\* C38: stream assembly is independent of chunking.  However the bytes of the
\* body are cut into chunks, the accumulated text at the end of the stream is
\* the concatenation of the deltas of its data lines, in order and each once,
\* and every text handed to onChunk strictly extends the one before.
C38_ChunkingIndependent ==
    /\ ssePc = "ended" => sseAccumulated = Flatten(events)
    /\ \A k \in 1..Len(delivered) :
          StrictlyExtends(delivered[k], IF k = 1 THEN <<>> ELSE delivered[k - 1])

\* C39: the result of findRelevantSection is well formed.  It is null when no
\* line scores at least 2; otherwise it is a pair of line numbers with
\* 0 <= start <= end <= lineCount - 1 and end - start <= 61.
C39_SectionWellFormed ==
    regionPc = "done" =>
        LET r == findRelevantSection(lines, instruction)
        IN  IF ~SomeLineScores THEN r = NoRange
            ELSE /\ r # NoRange
                 /\ 0 <= r[1].start /\ r[1].start <= r[1].end
                 /\ r[1].end <= Len(lines) - 1
                 /\ r[1].end - r[1].start <= MaxSectionSpan + 1

\* a block longer than the cap: the forward walk stopped 61 lines after its
\* start
C39_Witness ==
    /\ regionPc = "done"
    /\ SomeLineScores
    /\ findRelevantSection(lines, instruction) # NoRange
    /\ LET r == findRelevantSection(lines, instruction)[1]
       IN  r.end - r.start = MaxSectionSpan + 1 /\ r.end < Len(lines) - 1

\* C5: the continuation loop never issues more than MAX_CONTINUATIONS calls of
\* requestCompletion (4 in generateCode), whatever the finish reasons.
C5_BoundedRounds ==
    contPc # "idle" => calls <= MAX_CONTINUATIONS(contKind, contOption)

\* every call reported 'length' and the loop stopped at the bound
C5_Witness ==
    /\ contPc = "done"
    /\ calls = MAX_CONTINUATIONS(contKind, contOption)
    /\ calls > 0
    /\ \A i \in 1..Len(reasons) : reasons[i] = "length"

\* C6: the loop is done exactly when a call reported a finish reason other than
\* 'length' or MAX_CONTINUATIONS calls were made: while it runs every reason
\* so far is 'length' and fewer than MAX_CONTINUATIONS calls have returned; when
\* it is done the number of calls is the position of the first reason other than
\* 'length' (MAX_CONTINUATIONS if there is none), so no call follows it.
C6_StopCondition ==
    LET max == MAX_CONTINUATIONS(contKind, contOption)
        n == Len(reasons)
    IN  /\ contPc = "awaiting" =>
              /\ calls = n + 1
              /\ n < max
              /\ \A i \in 1..n : reasons[i] = "length"
        /\ contPc = "done" =>
              /\ calls = n
              /\ \A i \in 1..(n - 1) : reasons[i] = "length"
              /\ \/ n = max
                 \/ (n > 0 /\ reasons[n] # "length")

\* length, length, stop: exactly three calls
C6_Witness ==
    /\ contPc = "done"
    /\ reasons = <<"length", "length", "stop">>
    /\ calls = 3

====
